---- MODULE Spec2Model ----
(***************************************************************************)
(* Model of the antx-sdk Go client (package sdk): construction of an      *)
(* AntxClient, the account-state fetch, and the transaction submission    *)
(* pipeline signAndSendTx (build, key import, sequence fetch, sign,       *)
(* encode, POST, handle extraction), run by several concurrent callers    *)
(* against one gateway.                                                    *)
(*                                                                         *)
(* Strings that the code parses are sequences of one-character strings.   *)
(* A time.Time / int64 nanosecond count n is the record                    *)
(* [sec |-> n \div 10^9, nsec |-> n % 10^9] (n itself exceeds the integer  *)
(* range of the model checker).                                            *)
(***************************************************************************)
EXTENDS Integers, Sequences, FiniteSets, TLC

(* ------------------------------ bounds -------------------------------- *)
\* number of concurrent invocations of signAndSendTx on the one client
NumCalls == 2
\* number of times the wall clock advances
MaxTicks == 1
\* the server-observed sequence when the client is constructed
StartSeq == 9
\* number of orders in the longest CreateOrderBatchParam
MaxBatch == 2
\* number of WebSocketClients one AntxClient creates (calls of ConnectWebSocket
\* that reach NewWebSocketClient)
MaxConnects == 2
\* number of invocations of SubscribeToTicker / SubscribeToKline
NumSubs == 2
\* number of frames the server sends
MaxFrames == 2
\* number of frames sent on one connection and not yet read
MaxInFlight == 1
\* number of frames the server sends when it floods one subscription
FloodFrames == 101
\* number of calls of Unsubscribe
MaxUnsubs == 1
\* number of times Connect is called again on one WebSocketClient
MaxRedials == 1
\* number of elements in the longest data array given to the frame parsers
MaxData == 2

(* ------------------------ program constants --------------------------- *)
MsgCreateOrderTypeURL == "/antx.chain.order.MsgCreateOrder"
MsgBindAgentTypeURL == "/antx.chain.agent.MsgBindAgent"
MsgCreateOrderBatchTypeURL == "/antx.chain.order.MsgCreateOrderBatch"
MsgCancelOrderTypeURL == "/antx.chain.order.MsgCancelOrder"
MsgCancelOrderByClientIdTypeURL == "/antx.chain.order.MsgCancelOrderByClientId"
MsgCancelAllOrderTypeURL == "/antx.chain.order.MsgCancelAllOrder"
MsgCloseAllPositionTypeURL == "/antx.chain.order.MsgCloseAllPosition"
\* make(chan []byte, 100)
QueueCapacity == 100
\* txBuilder.SetGasLimit(200000)
GasLimit == 200000
\* time.Now().Add(10 * time.Second)
TimeoutSeconds == 10
\* the 1e9 of timeoutInt/1e9 and timeoutInt%1e9
NanosPerSecond == 1000000000
\* the mock answers of a client without gateway URL
MockTxHash == <<"m", "o", "c", "k", "_", "t", "x", "_", "h", "a", "s", "h">>
MockAccount == <<"0">>

\* a configured gateway host, and the empty one
GatewayHost == "https://gateway"
NoHost == ""
Hosts == {NoHost, GatewayHost}
\* a configured WebSocket address
WsHost == "wss://gateway/api/v1/ws"
WsHosts == {NoHost, WsHost}
\* the two addresses SetGateway is given: those of a gateway, or none
Gateways == {[baseURL |-> NoHost, wsURL |-> NoHost], [baseURL |-> GatewayHost, wsURL |-> WsHost]}

Calls == 1..NumCalls
\* the WebSocketClients, in the order ConnectWebSocket creates them
Clients == 1..MaxConnects
\* the invocations of SubscribeToTicker / SubscribeToKline
Subs == 1..NumSubs

(* ------------------------------ strings ------------------------------- *)
Digits == <<"0", "1", "2", "3", "4", "5", "6", "7", "8", "9">>

IsDigit(c) == \E k \in 1..10 : Digits[k] = c

DigitVal(c) == (CHOOSE k \in 1..10 : Digits[k] = c) - 1

\* strconv.ParseUint(s, 10, 64): the empty string and any character that is
\* not a decimal digit (a sign included) are syntax errors; leading zeros are
\* accepted.  Values above 2^64-1 need more than MaxStrLen digits.
RECURSIVE ParseDigits(_, _)
ParseDigits(s, acc) ==
    IF s = <<>> THEN acc
    ELSE ParseDigits(Tail(s), acc * 10 + DigitVal(Head(s)))

ParseUint(s) ==
    IF s = <<>> \/ \E k \in 1..Len(s) : ~IsDigit(s[k])
    THEN [err |-> TRUE, val |-> 0]
    ELSE [err |-> FALSE, val |-> ParseDigits(s, 0)]

\* the decimal text of a number, as the gateway writes it
RECURSIVE FormatUint(_)
FormatUint(n) ==
    IF n < 10 THEN <<Digits[n + 1]>>
    ELSE FormatUint(n \div 10) \o <<Digits[(n % 10) + 1]>>

(* ------------------------------- time --------------------------------- *)
\* time.Unix(sec, nsec): nsec outside [0, 1e9) is carried into sec
Unix(sec, nsec) ==
    [sec |-> sec + (nsec \div NanosPerSecond), nsec |-> nsec % NanosPerSecond]

\* t.Add(d seconds).UnixNano()
AddSecondsUnixNano(t, d) == [sec |-> t.sec + d, nsec |-> t.nsec]

\* Timeout with the nanoseconds of the time dropped
TimeoutWholeSeconds(t) ==
    LET timeoutInt == AddSecondsUnixNano(t, TimeoutSeconds)
    IN  Unix(timeoutInt.sec, 0)

\* timeoutInt := time.Now().Add(10 * time.Second).UnixNano()
\* timeout := time.Unix(timeoutInt/1e9, timeoutInt%1e9)
Timeout(t) ==
    LET timeoutInt == AddSecondsUnixNano(t, TimeoutSeconds)
    IN  Unix(timeoutInt.sec, timeoutInt.nsec)

\* the zero time.Time of a builder whose SetTimeoutTimestamp was not called
NoTimeout == [sec |-> -1, nsec |-> 0]

(* ------------------------- gateway replies ---------------------------- *)
\* an error is the chain of its messages, outermost first; Go's nil error
\* is the empty chain
NoError == <<>>

\* fmt.Errorf("text: %w", err)
Wrap(text, err) == <<text>> \o err

\* account numbers and handles the gateway may write into a reply
AcctStrings == {<<"4", "2">>, <<"4", "x">>}
TxHashStrings == {<<>>, <<"T">>}
HashStrings == {<<>>, <<"H">>}
TxIDStrings == {<<>>, <<"I">>}

\* the account number the gateway holds for the agent address
ServerAccount == <<"4", "2">>

\* the sequence texts a reply may carry while the server-observed sequence
\* is n: its decimal text, or text that is not an unsigned integer
SeqStrings(n) == {FormatUint(n), <<"-", "1">>}

\* what c.httpGet(GetAddressInfoPath, ...) leaves in
\* types.GetAccountNumberAndSequenceResponse: ok = FALSE is a transport or
\* JSON failure
FailedReplies ==
    {[ok |-> FALSE, code |-> "", msg |-> "", accountNumber |-> <<>>, sequence |-> <<>>],
     [ok |-> TRUE, code |-> "1", msg |-> "account not found",
      accountNumber |-> <<>>, sequence |-> <<>>]}

AccountReplies(n) ==
    FailedReplies
    \cup {[ok |-> TRUE, code |-> "0", msg |-> "success",
           accountNumber |-> ServerAccount, sequence |-> s] : s \in SeqStrings(n)}

\* the answers the constructor may get: the account number may be malformed
FirstReplies(n) ==
    FailedReplies
    \cup {[ok |-> TRUE, code |-> "0", msg |-> "success",
           accountNumber |-> a, sequence |-> FormatUint(n)] : a \in AcctStrings}

\* what c.httpPost(SendTransactionPath, ...) leaves in types.SendRawTxResponse
\* (BaseResp code and msg, and the three handle fields of
\* SendRawTxResponseData); accepted is the ledger's decision, which the
\* client never sees
SendReplies ==
    {[ok |-> FALSE, accepted |-> a, code |-> "", msg |-> "",
      txHash |-> <<>>, hash |-> <<>>, txId |-> <<>>] : a \in BOOLEAN}
    \cup {[ok |-> TRUE, accepted |-> TRUE, code |-> "0", msg |-> "success",
           txHash |-> t, hash |-> h, txId |-> x] :
              t \in TxHashStrings, h \in HashStrings, x \in TxIDStrings}
    \cup {[ok |-> TRUE, accepted |-> FALSE, code |-> "1", msg |-> "insufficient balance",
           txHash |-> <<>>, hash |-> <<>>, txId |-> <<>>]}

(* ------------------------------ state --------------------------------- *)
VARIABLES
    cstate,         \* "new" before NewAntxClient, then "ready" or "failed"
    baseURL,        \* AntxClient.baseURL
    accountNumber,  \* AntxClient.accountNumber, the cached account number
    acctLoads,      \* number of fetches whose account number was stored in the cache
    now,            \* the wall clock read by time.Now()
    ticks,          \* how often the clock has advanced
    serverSeq,      \* the sequence the ledger expects next from the agent address
    pc,             \* pc[i]: the position of invocation i of signAndSendTx
    args,           \* args[i]: the typeURL and unordered arguments
    txBuilder,      \* txBuilder[i]: the envelope under construction
    txFactory,      \* txFactory[i]: tx.Factory (account number and sequence to sign with)
    ret,            \* ret[i]: the returned (handle, error)
    trace,          \* trace[i]: what invocation i has done so far
    posts,          \* posts[i]: the POST bodies the gateway got from invocation i
    lastQuery,      \* the result of a stand-alone fetch or query the caller holds
    orders,         \* orders[i]: the CreateOrderBatchParam invocation i was called with
    wsURL,          \* AntxClient.wsURL
    wsClient,       \* AntxClient.wsClient: 0 for nil, else the WebSocketClient it points to
    ws,             \* ws[k]: the fields of WebSocketClient k
    loop,           \* loop[k]: the goroutine listenForMessages of WebSocketClient k
    inbound,        \* inbound[k]: the frames sent on connection k and not yet read
    srvSubs,        \* srvSubs[k]: the channels the server sends on connection k
    pushed,         \* the number of frames the server has sent
    sub,            \* sub[s]: invocation s of SubscribeToTicker / SubscribeToKline
    queue,          \* queue[s]: the content of the chan []byte made by invocation s
    wsRet,          \* what the last ConnectWebSocket or DisconnectWebSocket returned
    seen,           \* seen[k]: what the callbacks of WebSocketClient k were called with
    recvd,          \* recvd[s]: the frame the caller has received last from queue[s]
    wire,           \* wire[k]: the control frames written on the connection of WebSocketClient k
    unsubs,         \* what the calls of Unsubscribe have returned
    prev,           \* prev[k]: the connections WebSocketClient k held before Connect
                    \* was called on it again, each with its listenForMessages
    frameIn,        \* the bytes given to the frame parsers
    parsed          \* what the frame parser returned

clientVars == <<cstate, baseURL, accountNumber, acctLoads>>
envVars == <<now, ticks, serverSeq>>
callVars == <<pc, args, txBuilder, txFactory, ret, trace, posts>>
logVars == <<recvd, wire, unsubs>>
streamVars == <<wsClient, ws, loop, inbound, srvSubs, pushed, sub, queue, wsRet, seen, logVars,
                prev>>
parseVars == <<frameIn, parsed>>
restVars == <<orders, wsURL, streamVars, parseVars>>
vars == <<cstate, baseURL, accountNumber, acctLoads, now, ticks, serverSeq,
          pc, args, txBuilder, txFactory, ret, trace, posts, lastQuery,
          orders, wsURL, wsClient, ws, loop, inbound, srvSubs, pushed, sub,
          queue, wsRet, seen, recvd, wire, unsubs, prev, frameIn, parsed>>

Stages == <<"build", "import", "fetch", "sign", "encode", "send">>

\* the builder returned by TxConfig.NewTxBuilder()
NewTxBuilder ==
    [msgs |-> <<>>, unordered |-> FALSE, timeout |-> NoTimeout, gasLimit |-> 0,
     signed |-> FALSE, sequence |-> 0, accountNumber |-> 0]

\* tx.Factory{}
NewFactory == [accountNumber |-> 0, sequence |-> 0]

\* the zero types.SendRawTxResponse
\* (RawTx is the empty text, or the one text that was posted)
NoResp ==
    [code |-> "", msg |-> "", txHash |-> <<>>, hash |-> <<>>, txId |-> <<>>, rawTx |-> <<>>]

NoTrace ==
    [stages |-> <<>>, fetches |-> 0, netFetches |-> 0,
     fetched |-> [err |-> NoError, accountNumber |-> <<>>, sequence |-> <<>>],
     resp |-> NoResp]

(* -------------------------------- JSON --------------------------------- *)
\* The bytes of a frame are modelled as the JSON text they hold, as far as
\* encoding/json tells texts apart when it decodes them into the structs of
\* the client.  A member of an object is absent, null, a string or a number.
Absent == [t |-> "absent", s |-> "", n |-> 0]
Null == [t |-> "null", s |-> "", n |-> 0]
Str(x) == [t |-> "string", s |-> x, n |-> 0]
Num(x) == [t |-> "number", s |-> "", n |-> x]

\* json.Unmarshal into a string field: an absent or null member leaves the
\* zero value, a string is stored, anything else is an UnmarshalTypeError
DecodeString(v) ==
    IF v.t \in {"absent", "null"} THEN [err |-> FALSE, val |-> ""]
    ELSE IF v.t = "string" THEN [err |-> FALSE, val |-> v.s]
    ELSE [err |-> TRUE, val |-> ""]

\* json.Unmarshal into a uint64 field
DecodeUint(v) ==
    IF v.t \in {"absent", "null"} THEN [err |-> FALSE, val |-> 0]
    ELSE IF v.t = "number" THEN [err |-> FALSE, val |-> v.n]
    ELSE [err |-> TRUE, val |-> 0]

\* an element of the data array: null, a string, or an object with the
\* members exchangeId, lastPrice (types.TickerData) and klineTime (types.KLine)
ElemNull == [t |-> "null", exchangeId |-> Absent, lastPrice |-> Absent, klineTime |-> Absent]
ElemString == [t |-> "string", exchangeId |-> Absent, lastPrice |-> Absent, klineTime |-> Absent]
ElemObject(e, p, k) == [t |-> "object", exchangeId |-> e, lastPrice |-> p, klineTime |-> k]

\* types.TickerData and types.KLine, reduced to two fields each
TickerData(e, p) == [exchangeId |-> e, lastPrice |-> p]
KLine(e, k) == [exchangeId |-> e, klineTime |-> k]

\* json.Marshal of the two
MarshalTicker(x) == ElemObject(Str(x.exchangeId), Str(x.lastPrice), Absent)
MarshalKline(x) == ElemObject(Str(x.exchangeId), Absent, Num(x.klineTime))

\* json.Unmarshal of one element into types.TickerData / types.KLine: null
\* leaves the zero value, unknown members are ignored, a member of the wrong
\* type and an element that is no object are errors
DecodeTicker(e) ==
    IF e.t = "null" THEN [err |-> FALSE, val |-> TickerData("", "")]
    ELSE IF e.t # "object" THEN [err |-> TRUE, val |-> TickerData("", "")]
    ELSE [err |-> DecodeString(e.exchangeId).err \/ DecodeString(e.lastPrice).err,
          val |-> TickerData(DecodeString(e.exchangeId).val, DecodeString(e.lastPrice).val)]

DecodeKline(e) ==
    IF e.t = "null" THEN [err |-> FALSE, val |-> KLine("", 0)]
    ELSE IF e.t # "object" THEN [err |-> TRUE, val |-> KLine("", 0)]
    ELSE [err |-> DecodeString(e.exchangeId).err \/ DecodeUint(e.klineTime).err,
          val |-> KLine(DecodeString(e.exchangeId).val, DecodeUint(e.klineTime).val)]

DecodeElem(kind, e) == IF kind = "ticker" THEN DecodeTicker(e) ELSE DecodeKline(e)

\* the data member: absent, null, an array of elements, or a value of
\* another type (an object)
NoData == [t |-> "absent", a |-> <<>>]
NullData == [t |-> "null", a |-> <<>>]
ObjectData == [t |-> "object", a |-> <<>>]
Array(a) == [t |-> "array", a |-> a]

\* a frame: text that is no JSON, the JSON texts null and [..], and an object
\* with the members channel, event and data; raw tells frames of the same
\* shape apart
Garbage(n) == [json |-> "invalid", channel |-> Absent, event |-> Absent, data |-> NoData, raw |-> n]
NullText == [json |-> "null", channel |-> Absent, event |-> Absent, data |-> NoData, raw |-> 0]
ArrayText == [json |-> "array", channel |-> Absent, event |-> Absent, data |-> NoData, raw |-> 0]
Object(c, e, d) == [json |-> "object", channel |-> c, event |-> e, data |-> d, raw |-> 0]

\* json.Unmarshal(msg, &resp) with resp a WsRespBase: only channel and event
\* (and user, never sent here) are decoded, data is skipped
UnmarshalWsRespBase(msg) ==
    IF msg.json = "null" THEN [err |-> FALSE, channel |-> ""]
    ELSE IF msg.json # "object" THEN [err |-> TRUE, channel |-> ""]
    ELSE [err |-> DecodeString(msg.channel).err \/ DecodeString(msg.event).err,
          channel |-> DecodeString(msg.channel).val]

\* json.Unmarshal(data, &wsResponse) with Data []types.TickerData or
\* []types.KLine
UnmarshalWsResponse(kind, msg) ==
    IF msg.json = "null" THEN [err |-> FALSE, data |-> <<>>]
    ELSE IF msg.json # "object" THEN [err |-> TRUE, data |-> <<>>]
    ELSE LET d == msg.data
             elems == [k \in 1..Len(d.a) |-> DecodeElem(kind, d.a[k])]
         IN  [err |-> \/ DecodeString(msg.channel).err
                      \/ DecodeString(msg.event).err
                      \/ d.t \notin {"absent", "null", "array"}
                      \/ \E k \in 1..Len(d.a) : elems[k].err,
              data |-> [k \in 1..Len(d.a) |-> elems[k].val]]

(* ---------------------------- frame parsers --------------------------- *)
\* the message of the empty-payload error of each parser
NoDataMessage(kind) ==
    IF kind = "ticker" THEN "no ticker data in response" ELSE "no kline data in response"

\* ParseWsData that returns the last element of the data array
ParseWsDataLast(kind, data) ==
    LET wsResponse == UnmarshalWsResponse(kind, data)
    IN  IF wsResponse.err
        THEN [val |-> <<>>, err |-> <<"failed to parse websocket response", "json">>]
        ELSE IF Len(wsResponse.data) = 0
        THEN [val |-> <<>>, err |-> <<NoDataMessage(kind)>>]
        ELSE [val |-> <<wsResponse.data[Len(wsResponse.data)]>>, err |-> NoError]

\* the body shared by ParseTickerData and ParseKlineData (and by the methods
\* of the same names on AntxClient): the pointer returned is <<>> for nil and
\* <<x>> for a pointer to x
ParseWsData(kind, data) ==
    LET wsResponse == UnmarshalWsResponse(kind, data)
    IN  IF wsResponse.err
        THEN [val |-> <<>>, err |-> <<"failed to parse websocket response", "json">>]
        ELSE IF Len(wsResponse.data) = 0
        THEN [val |-> <<>>, err |-> <<NoDataMessage(kind)>>]
        ELSE [val |-> <<wsResponse.data[1]>>, err |-> NoError]

\* the frames given to the parsers
ExchangeIds == {"200001"}
TickerValues == {TickerData(e, p) : e \in ExchangeIds, p \in {"950.00", ""}}
KlineValues == {KLine(e, k) : e \in ExchangeIds, k \in {60}}
Elements ==
    {MarshalTicker(x) : x \in TickerValues} \cup {MarshalKline(x) : x \in KlineValues}
        \cup {ElemNull, ElemString}
DataValues ==
    {NoData, NullData, ObjectData}
        \cup {Array(a) : a \in UNION {[1..n -> Elements] : n \in 0..MaxData}}
ParserInputs ==
    {Garbage(1), NullText, ArrayText}
        \cup {Object(c, Str("payload"), d) :
                 c \in {Absent, Str("ticker.200001"), Num(7)}, d \in DataValues}

NoFrame == Garbage(0)
NoParsed == [fn |-> "", val |-> <<>>, err |-> NoError]

(* ---------------------------- order batches --------------------------- *)
\* types.CreateOrderBatchDetail, reduced to three fields
OrderDetails ==
    {[isBuy |-> TRUE, priceValue |-> 95000, clientOrderId |-> "batch-order-001"],
     [isBuy |-> FALSE, priceValue |-> 105000, clientOrderId |-> "batch-order-002"]}

\* types.CreateOrderBatchParam
BatchParams ==
    {[agentAddress |-> "agent", subaccountId |-> 1, exchangeId |-> 200001,
      marginMode |-> 1, leverage |-> l, createOrderParam |-> list] :
        l \in {1, 5}, list \in UNION {[1..n -> OrderDetails] : n \in 0..MaxBatch}}

NoBatch ==
    [agentAddress |-> "", subaccountId |-> 0, exchangeId |-> 0, marginMode |-> 0,
     leverage |-> 0, createOrderParam |-> <<>>]

\* the messages of CreateOrder and BindAgent, whose fields no claim looks at
PlainMsg(typeURL) == [typeURL |-> typeURL]

\* MsgCreateOrderBatch with the list of orders reversed
MsgCreateOrderBatchReversed(param) ==
    [typeURL |-> MsgCreateOrderBatchTypeURL,
     agentAddress |-> param.agentAddress,
     subaccountId |-> param.subaccountId,
     exchangeId |-> param.exchangeId,
     marginMode |-> param.marginMode,
     leverage |-> param.leverage,
     createOrderParam |->
        [k \in 1..Len(param.createOrderParam) |->
            LET order == param.createOrderParam[Len(param.createOrderParam) + 1 - k]
            IN  [isBuy |-> order.isBuy, priceValue |-> order.priceValue,
                 clientOrderId |-> order.clientOrderId]]]

\* the ordertypes.MsgCreateOrderBatch that CreateOrderBatch builds: the shared
\* fields of the parameter and one ordertypes.CreateOrderParam per detail, in
\* the order of the range loop
MsgCreateOrderBatch(param) ==
    [typeURL |-> MsgCreateOrderBatchTypeURL,
     agentAddress |-> param.agentAddress,
     subaccountId |-> param.subaccountId,
     exchangeId |-> param.exchangeId,
     marginMode |-> param.marginMode,
     leverage |-> param.leverage,
     createOrderParam |->
        [k \in 1..Len(param.createOrderParam) |->
            LET order == param.createOrderParam[k]
            IN  [isBuy |-> order.isBuy, priceValue |-> order.priceValue,
                 clientOrderId |-> order.clientOrderId]]]

(* ------------------------- WebSocket client --------------------------- *)
\* fmt.Sprintf("ticker.%s", exchangeId)
TickerChannel(exchangeId) == "ticker." \o exchangeId
\* fmt.Sprintf("kline.%s.%s.%s", priceType, exchangeId, klineType)
KlineChannel(priceType, exchangeId, klineType) ==
    "kline." \o priceType \o "." \o exchangeId \o "." \o klineType

\* WsSubscribeReq as WriteJSON writes it
WsSubscribeReq(method, channel) ==
    [method |-> method, subscription |-> [channel |-> channel]]

PriceTypes == {"LAST_PRICE"}
KlineTypes == {"MINUTE_1"}

\* a messageHandler: the filters wrapped around the handler given to
\* NewWebSocketClient, outermost first (a filter is named by the invocation
\* of subscribe that made it), and whether that handler is non-nil
Handler(filters, user) == [filters |-> filters, user |-> user]
NilHandler == Handler(<<>>, FALSE)

\* a WebSocketClient that does not exist yet
NoWebSocketClient ==
    [conn |-> "nil", isConnected |-> FALSE, messageHandler |-> NilHandler,
     errorHandler |-> FALSE]

\* NewWebSocketClient(wsURL, messageHandler, errorHandler): no connection,
\* not connected, the two callbacks as given (TRUE for non-nil)
NewWebSocketClient(messageHandler, errorHandler) ==
    [conn |-> "nil", isConnected |-> FALSE,
     messageHandler |-> Handler(<<>>, messageHandler), errorHandler |-> errorHandler]

NoSub ==
    [pc |-> "idle", client |-> 0, channel |-> "", original |-> NilHandler, drops |-> 0,
     unsubscribed |-> FALSE]
NoSeen == [frames |-> <<>>, errors |-> 0, loops |-> 0]
NoReturn == [op |-> "", err |-> NoError]

NoQuery == [op |-> "", err |-> NoError, accountNumber |-> <<>>, sequence |-> <<>>]

\* the AntxClient before its constructor runs, and no invocation started
InitSubmit ==
    /\ cstate = "new"
    /\ baseURL = NoHost
    /\ accountNumber = 0
    /\ acctLoads = 0
    /\ now = [sec |-> 100, nsec |-> 400000000]
    /\ ticks = 0
    /\ serverSeq = StartSeq
    /\ pc = [i \in Calls |-> "idle"]
    /\ args = [i \in Calls |-> [typeURL |-> "", msg |-> PlainMsg(""), unordered |-> FALSE]]
    /\ txBuilder = [i \in Calls |-> NewTxBuilder]
    /\ txFactory = [i \in Calls |-> NewFactory]
    /\ ret = [i \in Calls |-> [hash |-> <<>>, err |-> NoError]]
    /\ trace = [i \in Calls |-> NoTrace]
    /\ posts = [i \in Calls |-> <<>>]
    /\ lastQuery = NoQuery
    /\ orders = [i \in Calls |-> NoBatch]
    /\ wsURL = NoHost

\* no WebSocketClient yet
InitStream ==
    /\ wsClient = 0
    /\ ws = [k \in Clients |-> NoWebSocketClient]
    /\ loop = [k \in Clients |-> "none"]
    /\ inbound = [k \in Clients |-> <<>>]
    /\ srvSubs = [k \in Clients |-> {}]
    /\ pushed = 0
    /\ sub = [s \in Subs |-> NoSub]
    /\ queue = [s \in Subs |-> <<>>]
    /\ wsRet = NoReturn
    /\ seen = [k \in Clients |-> NoSeen]
    /\ recvd = [s \in Subs |-> NoFrame]
    /\ wire = [k \in Clients |-> <<>>]
    /\ unsubs = <<>>
    /\ prev = [k \in Clients |-> <<>>]

Init ==
    /\ InitSubmit
    /\ InitStream
    /\ frameIn = NoFrame
    /\ parsed = NoParsed

(* ----------------------- account-state fetch -------------------------- *)
\* GetAccountNumberAndSequence that asks the gateway also without base URL
GetAccountNumberAndSequenceAsks(url, reply) ==
    IF ~reply.ok
    THEN [err |-> <<"failed to send GET request">>,
          accountNumber |-> <<>>, sequence |-> <<>>]
    ELSE IF reply.code # "0"
    THEN [err |-> <<"get account info failed", reply.msg>>,
          accountNumber |-> <<>>, sequence |-> <<>>]
    ELSE [err |-> NoError, accountNumber |-> reply.accountNumber,
          sequence |-> reply.sequence]

\* GetAccountNumberAndSequence: without base URL the fixed answer ("0", "0"),
\* otherwise the reply of the gateway, an error when the transport fails or
\* the code is not "0"
GetAccountNumberAndSequence(url, reply) ==
    IF url = NoHost
    THEN [err |-> NoError, accountNumber |-> MockAccount, sequence |-> MockAccount]
    ELSE IF ~reply.ok
    THEN [err |-> <<"failed to send GET request">>,
          accountNumber |-> <<>>, sequence |-> <<>>]
    ELSE IF reply.code # "0"
    THEN [err |-> <<"get account info failed", reply.msg>>,
          accountNumber |-> <<>>, sequence |-> <<>>]
    ELSE [err |-> NoError, accountNumber |-> reply.accountNumber,
          sequence |-> reply.sequence]

(* --------------------------- construction ----------------------------- *)
\* NewAntxClient: cfgOK stands for the validation and decoding of chain id
\* and keys; with a gateway host the account number is fetched and parsed
NewAntxClient(cfgOK, host, reply) ==
    /\ cstate = "new"
    /\ LET r == GetAccountNumberAndSequence(host, reply)
           n == ParseUint(r.accountNumber)
       IN  IF ~cfgOK
           THEN /\ cstate' = "failed"
                /\ UNCHANGED <<baseURL, accountNumber, acctLoads>>
           ELSE IF host = NoHost
           THEN /\ cstate' = "ready"
                /\ baseURL' = host
                /\ UNCHANGED <<accountNumber, acctLoads>>
           ELSE IF r.err # NoError \/ n.err
           THEN /\ cstate' = "failed"
                /\ baseURL' = host
                /\ UNCHANGED <<accountNumber, acctLoads>>
           ELSE /\ cstate' = "ready"
                /\ baseURL' = host
                /\ accountNumber' = n.val
                /\ acctLoads' = acctLoads + 1
    /\ UNCHANGED <<envVars, callVars, lastQuery, restVars>>

\* NewAntxClient or NewAntxQueryClient has returned a client
Constructed == cstate \in {"ready", "query"}

\* SetGateway replaces the base URL and the WebSocket URL and nothing else of
\* the fields modelled
SetGateway(url, wsu) ==
    /\ Constructed
    /\ baseURL' = url
    /\ wsURL' = wsu
    /\ UNCHANGED <<cstate, accountNumber, acctLoads, envVars, callVars, lastQuery,
                   orders, streamVars, parseVars>>

(* --------------------------- signAndSendTx ---------------------------- *)
\* Fail that records the error and runs the failed stage again
FailRetry(i, err) ==
    /\ ret' = [ret EXCEPT ![i] = [hash |-> <<>>, err |-> err]]
    /\ UNCHANGED pc

\* every "return "", fmt.Errorf(...)" of signAndSendTx: the empty handle, the
\* error, and the end of the invocation
Fail(i, err) ==
    /\ ret' = [ret EXCEPT ![i] = [hash |-> <<>>, err |-> err]]
    /\ pc' = [pc EXCEPT ![i] = "done"]

Ran(i, stage) == [trace[i] EXCEPT !.stages = Append(@, stage)]

\* NewTxBuilder, SetMsgs, the timeout computed from time.Now(), SetUnordered
\* and SetTimeoutTimestamp in unordered mode only, gas limit and (no) fee
Build(i, typeURL, msg, unordered, msgOK) ==
    /\ cstate = "ready"
    /\ pc[i] = "idle"
    /\ args' = [args EXCEPT ![i] = [typeURL |-> typeURL, msg |-> msg, unordered |-> unordered]]
    /\ trace' = [trace EXCEPT ![i] = Ran(i, "build")]
    /\ IF ~msgOK
       THEN /\ Fail(i, <<"failed to set messages">>)
            /\ txBuilder' = [txBuilder EXCEPT ![i] = NewTxBuilder]
       ELSE /\ txBuilder' = [txBuilder EXCEPT ![i] =
                   [NewTxBuilder EXCEPT
                       !.msgs = <<msg>>,
                       !.unordered = unordered,
                       !.timeout = IF unordered THEN Timeout(now) ELSE NoTimeout,
                       !.gasLimit = GasLimit]]
            /\ pc' = [pc EXCEPT ![i] = "import"]
            /\ UNCHANGED ret
    /\ UNCHANGED <<clientVars, envVars, txFactory, posts, lastQuery, wsURL, streamVars, parseVars>>

\* the in-memory keyring, ImportPrivKeyHex, and the tx.Factory with the
\* cached account number
ImportKey(i, ok) ==
    /\ pc[i] = "import"
    /\ trace' = [trace EXCEPT ![i] = Ran(i, "import")]
    /\ IF ~ok
       THEN /\ Fail(i, <<"failed to import private key to keyring">>)
            /\ UNCHANGED txFactory
       ELSE /\ txFactory' = [txFactory EXCEPT ![i] =
                   [NewFactory EXCEPT !.accountNumber = accountNumber]]
            /\ pc' = [pc EXCEPT ![i] = IF args[i].unordered THEN "sign" ELSE "fetch"]
            /\ UNCHANGED ret
    /\ UNCHANGED <<clientVars, envVars, args, txBuilder, posts, lastQuery, restVars>>

\* FetchSequence that signs with sequence 0 when the sequence does not parse
FetchSequenceDefault(i, reply) ==
    /\ pc[i] = "fetch"
    /\ LET r == GetAccountNumberAndSequence(baseURL, reply)
           sequenceUint == ParseUint(r.sequence)
       IN  /\ trace' = [trace EXCEPT ![i] =
                  [Ran(i, "fetch") EXCEPT
                      !.fetches = @ + 1,
                      !.netFetches = IF baseURL = NoHost THEN @ ELSE @ + 1,
                      !.fetched = r]]
           /\ IF r.err # NoError
              THEN /\ Fail(i, Wrap("failed to get account number and sequence", r.err))
                   /\ UNCHANGED txFactory
              ELSE /\ txFactory' = [txFactory EXCEPT ![i].sequence = sequenceUint.val]
                   /\ pc' = [pc EXCEPT ![i] = "sign"]
                   /\ UNCHANGED ret
    /\ UNCHANGED <<clientVars, envVars, args, txBuilder, posts, lastQuery, restVars>>

\* FetchSequence of a client that adds to the fetched sequence the number of
\* its own ordered envelopes that are signed and not yet answered
FetchSequencePending(i, reply) ==
    /\ pc[i] = "fetch"
    /\ LET r == GetAccountNumberAndSequence(baseURL, reply)
           sequenceUint == ParseUint(r.sequence)
           pending == Cardinality({j \in Calls : j # i /\ ~args[j].unordered
                                                  /\ pc[j] \in {"sign", "encode", "send"}})
       IN  /\ trace' = [trace EXCEPT ![i] =
                  [Ran(i, "fetch") EXCEPT
                      !.fetches = @ + 1,
                      !.netFetches = IF baseURL = NoHost THEN @ ELSE @ + 1,
                      !.fetched = r]]
           /\ IF r.err # NoError
              THEN /\ Fail(i, Wrap("failed to get account number and sequence", r.err))
                   /\ UNCHANGED txFactory
              ELSE IF sequenceUint.err
              THEN /\ Fail(i, <<"failed to parse sequence">>)
                   /\ UNCHANGED txFactory
              ELSE /\ txFactory' = [txFactory EXCEPT ![i].sequence = sequenceUint.val + pending]
                   /\ pc' = [pc EXCEPT ![i] = "sign"]
                   /\ UNCHANGED ret
    /\ UNCHANGED <<clientVars, envVars, args, txBuilder, posts, lastQuery, restVars>>

\* FetchSequence that also stores the account number of the answer in the
\* client
FetchSequenceRefresh(i, reply) ==
    /\ pc[i] = "fetch"
    /\ LET r == GetAccountNumberAndSequence(baseURL, reply)
           sequenceUint == ParseUint(r.sequence)
           acct == ParseUint(r.accountNumber)
       IN  /\ trace' = [trace EXCEPT ![i] =
                  [Ran(i, "fetch") EXCEPT
                      !.fetches = @ + 1,
                      !.netFetches = IF baseURL = NoHost THEN @ ELSE @ + 1,
                      !.fetched = r]]
           /\ IF r.err # NoError
              THEN /\ Fail(i, Wrap("failed to get account number and sequence", r.err))
                   /\ UNCHANGED <<txFactory, accountNumber>>
              ELSE IF sequenceUint.err
              THEN /\ Fail(i, <<"failed to parse sequence">>)
                   /\ UNCHANGED <<txFactory, accountNumber>>
              ELSE /\ txFactory' = [txFactory EXCEPT ![i].sequence = sequenceUint.val]
                   /\ accountNumber' = IF acct.err THEN accountNumber ELSE acct.val
                   /\ pc' = [pc EXCEPT ![i] = "sign"]
                   /\ UNCHANGED ret
    /\ UNCHANGED <<cstate, baseURL, acctLoads, envVars, args, txBuilder, posts, lastQuery, restVars>>

\* FetchSequence of a client that keeps the sequence of an earlier
\* invocation and fetches only when it has none
FetchSequenceCached(i, reply) ==
    /\ pc[i] = "fetch"
    /\ LET earlier == {j \in Calls : j # i /\ ~args[j].unordered /\ txBuilder[j].signed}
           r == GetAccountNumberAndSequence(baseURL, reply)
           sequenceUint == ParseUint(r.sequence)
       IN  /\ trace' = [trace EXCEPT ![i] =
                  [Ran(i, "fetch") EXCEPT
                      !.fetches = @ + 1,
                      !.netFetches = IF baseURL = NoHost THEN @ ELSE @ + 1,
                      !.fetched = r]]
           /\ IF r.err # NoError
              THEN /\ Fail(i, Wrap("failed to get account number and sequence", r.err))
                   /\ UNCHANGED txFactory
              ELSE IF sequenceUint.err
              THEN /\ Fail(i, <<"failed to parse sequence">>)
                   /\ UNCHANGED txFactory
              ELSE /\ txFactory' = [txFactory EXCEPT ![i].sequence =
                          IF earlier = {} THEN sequenceUint.val
                          ELSE txBuilder[CHOOSE j \in earlier : TRUE].sequence]
                   /\ pc' = [pc EXCEPT ![i] = "sign"]
                   /\ UNCHANGED ret
    /\ UNCHANGED <<clientVars, envVars, args, txBuilder, posts, lastQuery, restVars>>

\* FetchSequence with the result of WithSequence thrown away
FetchSequenceNotStored(i, reply) ==
    /\ pc[i] = "fetch"
    /\ LET r == GetAccountNumberAndSequence(baseURL, reply)
           sequenceUint == ParseUint(r.sequence)
       IN  /\ trace' = [trace EXCEPT ![i] =
                  [Ran(i, "fetch") EXCEPT
                      !.fetches = @ + 1,
                      !.netFetches = IF baseURL = NoHost THEN @ ELSE @ + 1,
                      !.fetched = r]]
           /\ IF r.err # NoError
              THEN Fail(i, Wrap("failed to get account number and sequence", r.err))
              ELSE IF sequenceUint.err
              THEN Fail(i, <<"failed to parse sequence">>)
              ELSE /\ pc' = [pc EXCEPT ![i] = "sign"]
                   /\ UNCHANGED ret
    /\ UNCHANGED <<clientVars, envVars, args, txBuilder, txFactory, posts, lastQuery, restVars>>

\* ordered mode only: GetAccountNumberAndSequence, ParseUint of the
\* sequence, WithSequence; the account number of the answer is dropped
FetchSequence(i, reply) ==
    /\ pc[i] = "fetch"
    /\ LET r == GetAccountNumberAndSequence(baseURL, reply)
           sequenceUint == ParseUint(r.sequence)
       IN  /\ trace' = [trace EXCEPT ![i] =
                  [Ran(i, "fetch") EXCEPT
                      !.fetches = @ + 1,
                      !.netFetches = IF baseURL = NoHost THEN @ ELSE @ + 1,
                      !.fetched = r]]
           /\ IF r.err # NoError
              THEN /\ Fail(i, Wrap("failed to get account number and sequence", r.err))
                   /\ UNCHANGED txFactory
              ELSE IF sequenceUint.err
              THEN /\ Fail(i, <<"failed to parse sequence">>)
                   /\ UNCHANGED txFactory
              ELSE /\ txFactory' = [txFactory EXCEPT ![i].sequence = sequenceUint.val]
                   /\ pc' = [pc EXCEPT ![i] = "sign"]
                   /\ UNCHANGED ret
    /\ UNCHANGED <<clientVars, envVars, args, txBuilder, posts, lastQuery, restVars>>

\* Sign without the return after a signing failure
SignNoReturn(i, ok) ==
    /\ pc[i] = "sign"
    /\ trace' = [trace EXCEPT ![i] = Ran(i, "sign")]
    /\ IF ~ok
       THEN /\ ret' = [ret EXCEPT ![i] = [hash |-> <<>>, err |-> <<"failed to sign transaction">>]]
            /\ pc' = [pc EXCEPT ![i] = "encode"]
            /\ UNCHANGED txBuilder
       ELSE /\ txBuilder' = [txBuilder EXCEPT ![i] =
                   [@ EXCEPT !.signed = TRUE,
                             !.sequence = txFactory[i].sequence,
                             !.accountNumber = txFactory[i].accountNumber]]
            /\ pc' = [pc EXCEPT ![i] = "encode"]
            /\ UNCHANGED ret
    /\ UNCHANGED <<clientVars, envVars, args, txFactory, posts, lastQuery, restVars>>

\* tx.Sign: the signature covers the factory's account number and sequence,
\* and the signer info of the envelope carries the factory's sequence
Sign(i, ok) ==
    /\ pc[i] = "sign"
    /\ trace' = [trace EXCEPT ![i] = Ran(i, "sign")]
    /\ IF ~ok
       THEN /\ Fail(i, <<"failed to sign transaction">>)
            /\ UNCHANGED txBuilder
       ELSE /\ txBuilder' = [txBuilder EXCEPT ![i] =
                   [@ EXCEPT !.signed = TRUE,
                             !.sequence = txFactory[i].sequence,
                             !.accountNumber = txFactory[i].accountNumber]]
            /\ pc' = [pc EXCEPT ![i] = "encode"]
            /\ UNCHANGED ret
    /\ UNCHANGED <<clientVars, envVars, args, txFactory, posts, lastQuery, restVars>>

\* TxEncoder()(txBuilder.GetTx())
Encode(i, ok) ==
    /\ pc[i] = "encode"
    /\ trace' = [trace EXCEPT ![i] = Ran(i, "encode")]
    /\ IF ~ok
       THEN Fail(i, <<"failed to encode transaction">>)
       ELSE /\ pc' = [pc EXCEPT ![i] = "send"]
            /\ UNCHANGED ret
    /\ UNCHANGED <<clientVars, envVars, args, txBuilder, txFactory, posts, lastQuery, restVars>>

\* the wire form of the signed envelope: TxEncoder, then base64
TxEncoder(tx) == [bytes |-> tx]
Base64(b) == [b64 |-> b]

\* SendRawTx: without base URL a made-up success answer and no request;
\* otherwise the POST, an error when the transport fails, and the gateway's
\* answer as it is (its code is not looked at)
SendRawTx(url, req, reply) ==
    IF url = NoHost
    THEN [err |-> NoError, posted |-> FALSE,
          resp |-> [code |-> "0", msg |-> "success", txHash |-> MockTxHash,
                    hash |-> <<>>, txId |-> <<>>, rawTx |-> <<req.rawTx>>]]
    ELSE IF ~reply.ok
    THEN [err |-> <<"failed to send POST request">>, posted |-> TRUE,
          resp |-> NoResp]
    ELSE [err |-> NoError, posted |-> TRUE,
          resp |-> [code |-> reply.code, msg |-> reply.msg, txHash |-> reply.txHash,
                    hash |-> reply.hash, txId |-> reply.txId, rawTx |-> <<>>]]

\* TxHandle that looks at hash before txHash
TxHandleHashFirst(resp) ==
    IF resp.hash # <<>> THEN resp.hash
    ELSE IF resp.txHash # <<>> THEN resp.txHash
    ELSE resp.txId

\* the handle taken from the answer: txHash, else hash, else txId
TxHandle(resp) ==
    IF resp.txHash # <<>> THEN resp.txHash
    ELSE IF resp.hash # <<>> THEN resp.hash
    ELSE resp.txId

\* the ledger takes an ordered envelope only with the sequence it expects
LedgerAccepts(tx, reply) ==
    /\ reply.accepted
    /\ tx.unordered \/ tx.sequence = serverSeq

\* the request with type URL, encoded envelope and cached account number,
\* SendRawTx, and the handle; an accepted ordered envelope advances the
\* server-observed sequence
Send(i, reply) ==
    /\ pc[i] = "send"
    /\ reply.ok /\ reply.code = "0" => LedgerAccepts(txBuilder[i], reply)
    /\ LET req == [typeURL |-> args[i].typeURL,
                   rawTx |-> Base64(TxEncoder(txBuilder[i])),
                   accountNumber |-> accountNumber]
           r == SendRawTx(baseURL, req, reply)
           taken == r.posted /\ LedgerAccepts(txBuilder[i], reply)
       IN  /\ trace' = [trace EXCEPT ![i] = [Ran(i, "send") EXCEPT !.resp = r.resp]]
           /\ posts' = IF r.posted
                       THEN [posts EXCEPT ![i] =
                               Append(@, [req |-> req, seqAtPost |-> serverSeq,
                                          accepted |-> taken])]
                       ELSE posts
           /\ serverSeq' = IF taken /\ ~txBuilder[i].unordered
                           THEN serverSeq + 1 ELSE serverSeq
           /\ IF r.err # NoError
              THEN Fail(i, Wrap("failed to send transaction", r.err))
              ELSE /\ ret' = [ret EXCEPT ![i] = [hash |-> TxHandle(r.resp), err |-> NoError]]
                   /\ pc' = [pc EXCEPT ![i] = "done"]
    /\ UNCHANGED <<clientVars, now, ticks, args, txBuilder, txFactory, lastQuery, restVars>>

(* ---------------------- stand-alone operations ------------------------ *)
\* a caller's own GetAccountNumberAndSequence
FetchAccount(reply) ==
    /\ cstate = "ready"
    /\ LET r == GetAccountNumberAndSequence(baseURL, reply)
       IN  lastQuery' = [op |-> "GetAccountNumberAndSequence", err |-> r.err,
                         accountNumber |-> r.accountNumber, sequence |-> r.sequence]
    /\ UNCHANGED <<clientVars, envVars, callVars, restVars>>

\* a read-only query, GetCoinList: httpGet fails without base URL or when
\* the transport fails, and a code other than "0" is an error
GetCoinList(ok, code) ==
    /\ cstate = "ready"
    /\ lastQuery' =
          [op |-> "GetCoinList",
           err |-> IF baseURL = NoHost THEN <<"gateway baseURL is not set">>
                   ELSE IF ~ok THEN <<"failed to send GET request">>
                   ELSE IF code # "0" THEN <<"get coin list failed">>
                   ELSE NoError,
           accountNumber |-> <<>>, sequence |-> <<>>]
    /\ UNCHANGED <<clientVars, envVars, callVars, restVars>>

\* the caller is done with the result of its fetch or query
DropResult ==
    /\ lastQuery # NoQuery
    /\ lastQuery' = NoQuery
    /\ UNCHANGED <<clientVars, envVars, callVars, restVars>>

(* ----------------------------- the clock ------------------------------ *)
TickNanos == 600000001

Tick ==
    /\ ticks < MaxTicks
    /\ ticks' = ticks + 1
    /\ now' = Unix(now.sec, now.nsec + TickNanos)
    /\ UNCHANGED <<clientVars, serverSeq, callVars, lastQuery, restVars>>

(* -------------------------- CreateOrderBatch -------------------------- *)
\* CreateOrderBatch: the batch message built from the parameter, handed to
\* signAndSendTx in unordered mode; the first stage of signAndSendTx runs in
\* the same step
CreateOrderBatch(i, param, msgOK) ==
    /\ orders' = [orders EXCEPT ![i] = param]
    /\ Build(i, MsgCreateOrderBatchTypeURL, MsgCreateOrderBatch(param), TRUE, msgOK)

(* ------------------- order operations and BindAgent ------------------- *)
\* CreateOrder: MsgCreateOrder handed to signAndSendTx in unordered mode
CreateOrder(i, msgOK) ==
    /\ Build(i, MsgCreateOrderTypeURL, PlainMsg(MsgCreateOrderTypeURL), TRUE, msgOK)
    /\ UNCHANGED orders

\* CancelOrder that submits in ordered mode
CancelOrderOrdered(i, msgOK) ==
    /\ Build(i, MsgCancelOrderTypeURL, PlainMsg(MsgCancelOrderTypeURL), FALSE, msgOK)
    /\ UNCHANGED orders

\* CancelOrder: MsgCancelOrder handed to signAndSendTx in unordered mode
CancelOrder(i, msgOK) ==
    /\ Build(i, MsgCancelOrderTypeURL, PlainMsg(MsgCancelOrderTypeURL), TRUE, msgOK)
    /\ UNCHANGED orders

\* CancelOrderByClientId, in unordered mode
CancelOrderByClientId(i, msgOK) ==
    /\ Build(i, MsgCancelOrderByClientIdTypeURL,
             PlainMsg(MsgCancelOrderByClientIdTypeURL), TRUE, msgOK)
    /\ UNCHANGED orders

\* CancelAllOrder, in unordered mode
CancelAllOrder(i, msgOK) ==
    /\ Build(i, MsgCancelAllOrderTypeURL, PlainMsg(MsgCancelAllOrderTypeURL), TRUE, msgOK)
    /\ UNCHANGED orders

\* CloseAllPosition, in unordered mode
CloseAllPosition(i, msgOK) ==
    /\ Build(i, MsgCloseAllPositionTypeURL, PlainMsg(MsgCloseAllPositionTypeURL), TRUE, msgOK)
    /\ UNCHANGED orders

\* BindAgent: the Ethereum key is parsed and the binding message signed with
\* it, which may fail and ends the call before any submit; otherwise
\* MsgBindAgent is handed to signAndSendTx in ordered mode
BindAgent(i, keyOK, msgOK) ==
    IF keyOK
    THEN /\ Build(i, MsgBindAgentTypeURL, PlainMsg(MsgBindAgentTypeURL), FALSE, msgOK)
         /\ UNCHANGED orders
    ELSE /\ cstate = "ready"
         /\ pc[i] = "idle"
         /\ args' = [args EXCEPT ![i] = [typeURL |-> MsgBindAgentTypeURL,
                                         msg |-> PlainMsg(MsgBindAgentTypeURL),
                                         unordered |-> FALSE]]
         /\ Fail(i, <<"invalid ethereum private key">>)
         /\ UNCHANGED <<clientVars, envVars, txBuilder, txFactory, trace, posts,
                        lastQuery, restVars>>

(* ---------------------------- frame parsers --------------------------- *)
\* ParseTickerData(data), applied to the bytes at hand
ParseTickerData ==
    /\ parsed.fn = ""
    /\ parsed' = [fn |-> "ParseTickerData",
                  val |-> ParseWsData("ticker", frameIn).val,
                  err |-> ParseWsData("ticker", frameIn).err]
    /\ UNCHANGED <<clientVars, envVars, callVars, lastQuery, orders, wsURL, streamVars, frameIn>>

\* ParseKlineData(data), applied to the bytes at hand
ParseKlineData ==
    /\ parsed.fn = ""
    /\ parsed' = [fn |-> "ParseKlineData",
                  val |-> ParseWsData("kline", frameIn).val,
                  err |-> ParseWsData("kline", frameIn).err]
    /\ UNCHANGED <<clientVars, envVars, callVars, lastQuery, orders, wsURL, streamVars, frameIn>>

(* ------------------------- query-only client -------------------------- *)
\* NewAntxQueryClient(baseURL, wsURL): a client for queries and WebSocket
\* only, with the two addresses and nothing else
NewAntxQueryClient(url, wsu) ==
    /\ cstate = "new"
    /\ cstate' = "query"
    /\ baseURL' = url
    /\ wsURL' = wsu
    /\ UNCHANGED <<accountNumber, acctLoads, envVars, callVars, lastQuery, orders,
                   streamVars, parseVars>>

(* ------------------------- WebSocket client --------------------------- *)
\* c.conn.Close(): closing a connection that is closed already is an error
\* of the network connection underneath
Close(conn) ==
    IF conn = "closed" THEN <<"use of closed network connection">> ELSE NoError

\* Disconnect that leaves the connection open
DisconnectKeepsConnection(c) ==
    [client |-> [c EXCEPT !.isConnected = FALSE], err |-> NoError]

\* WebSocketClient.Disconnect: with a connection, isConnected = false and
\* the result of Close; without one, nil
Disconnect(c) ==
    IF c.conn # "nil"
    THEN [client |-> [c EXCEPT !.isConnected = FALSE, !.conn = "closed"],
          err |-> Close(c.conn)]
    ELSE [client |-> c, err |-> NoError]

\* Connect that starts listenForMessages also when the dial has failed
ConnectAlwaysListens(c, dialOK) ==
    IF ~dialOK
    THEN [client |-> [c EXCEPT !.isConnected = FALSE],
          err |-> <<"websocket dial error", "dial">>, listens |-> TRUE]
    ELSE [client |-> [c EXCEPT !.conn = "open", !.isConnected = TRUE],
          err |-> NoError, listens |-> TRUE]

\* WebSocketClient.Connect: a failed dial leaves no connection and
\* isConnected = false, a successful one stores the connection, sets
\* isConnected and starts listenForMessages
Connect(c, dialOK) ==
    IF ~dialOK
    THEN [client |-> [c EXCEPT !.isConnected = FALSE],
          err |-> <<"websocket dial error", "dial">>, listens |-> FALSE]
    ELSE [client |-> [c EXCEPT !.conn = "open", !.isConnected = TRUE],
          err |-> NoError, listens |-> TRUE]

\* AntxClient.ConnectWebSocket: Disconnect of the previous WebSocketClient,
\* the check of wsURL, NewWebSocketClient and Connect
ConnectWebSocket(messageHandler, errorHandler, dialOK) ==
    /\ Constructed
    /\ wsClient < MaxConnects
    /\ LET k == wsClient + 1
           closed == IF wsClient # 0
                     THEN [ws EXCEPT ![wsClient] = Disconnect(@).client]
                     ELSE ws
           r == Connect(NewWebSocketClient(messageHandler, errorHandler), dialOK)
       IN  /\ srvSubs' = [j \in Clients |-> IF j = wsClient THEN {} ELSE srvSubs[j]]
           /\ IF wsURL = NoHost
              THEN /\ ws' = closed
                   /\ wsRet' = [op |-> "ConnectWebSocket", err |-> <<"wsURL is not set">>]
                   /\ UNCHANGED <<wsClient, loop, seen>>
              ELSE /\ ws' = [closed EXCEPT ![k] = r.client]
                   /\ wsClient' = k
                   /\ wsRet' = [op |-> "ConnectWebSocket", err |-> r.err]
                   /\ loop' = IF r.listens THEN [loop EXCEPT ![k] = "reading"] ELSE loop
                   /\ seen' = IF r.listens THEN [seen EXCEPT ![k].loops = @ + 1] ELSE seen
    /\ UNCHANGED <<clientVars, envVars, callVars, lastQuery, orders, wsURL,
                   inbound, pushed, sub, queue, logVars,
                   prev, parseVars>>

\* AntxClient.DisconnectWebSocket: Disconnect of the WebSocketClient, if any
DisconnectWebSocket ==
    /\ Constructed
    /\ IF wsClient = 0
       THEN /\ wsRet' = [op |-> "DisconnectWebSocket", err |-> NoError]
            /\ UNCHANGED <<ws, srvSubs>>
       ELSE /\ wsRet' = [op |-> "DisconnectWebSocket", err |-> Disconnect(ws[wsClient]).err]
            /\ ws' = [ws EXCEPT ![wsClient] = Disconnect(@).client]
            /\ srvSubs' = [srvSubs EXCEPT ![wsClient] = {}]
    /\ UNCHANGED <<clientVars, envVars, callVars, lastQuery, orders, wsURL,
                   wsClient, loop, inbound, pushed, sub, queue, seen, logVars,
                   prev, parseVars>>

\* Subscribe and Unsubscribe up to the control frame: not connected is an
\* error, and so is a failed WriteJSON
WriteControl(c, writeOK) ==
    IF ~c.isConnected THEN <<"websocket not connected">>
    ELSE IF ~writeOK \/ c.conn # "open" THEN <<"write error">>
    ELSE NoError

\* the wrapper of the subscription that forwards to nobody: it replaces the
\* handler instead of wrapping it
FilteredAlone(s, originalHandler) == Handler(<<s>>, originalHandler.user)

\* the closure assigned to c.messageHandler by invocation s: its filter, and
\* after it originalHandler
Filtered(s, originalHandler) == Handler(<<s>> \o originalHandler.filters, originalHandler.user)

\* invocations of subscribe are interchangeable: they are numbered in the
\* order they start
StartsNextSub(s) == \A j \in Subs : j < s => sub[j].pc # "idle"

\* subscribe that installs its wrapper also when Subscribe has failed
SubscribeBeginInstalls(s, channel, writeOK) ==
    /\ Constructed
    /\ sub[s].pc = "idle"
    /\ StartsNextSub(s)
    /\ LET err == IF wsClient = 0 THEN <<"websocket not connected">>
                  ELSE WriteControl(ws[wsClient], writeOK)
       IN  IF err # NoError
           THEN /\ sub' = [sub EXCEPT ![s] = [NoSub EXCEPT !.pc = "failed", !.channel = channel]]
                /\ ws' = IF wsClient = 0 THEN ws
                         ELSE [ws EXCEPT ![wsClient].messageHandler = Filtered(s, @)]
                /\ UNCHANGED <<srvSubs, wire>>
           ELSE /\ sub' = [sub EXCEPT ![s] =
                       [pc |-> "install", client |-> wsClient, channel |-> channel,
                        original |-> ws[wsClient].messageHandler, drops |-> 0,
                        unsubscribed |-> FALSE]]
                /\ srvSubs' = [srvSubs EXCEPT ![wsClient] = @ \cup {channel}]
                /\ wire' = [wire EXCEPT ![wsClient] =
                               Append(@, WsSubscribeReq("subscribe", channel))]
                /\ UNCHANGED ws
    /\ UNCHANGED <<clientVars, envVars, callVars, lastQuery, orders, wsURL,
                   wsClient, loop, inbound, pushed, queue, wsRet, seen, recvd, unsubs,
                   prev, parseVars>>

\* SubscribeToTicker / SubscribeToKline up to the read of c.messageHandler:
\* the nil check of AntxClient, Subscribe(channel), and originalHandler
SubscribeBegin(s, channel, writeOK) ==
    /\ Constructed
    /\ sub[s].pc = "idle"
    /\ StartsNextSub(s)
    /\ LET err == IF wsClient = 0 THEN <<"websocket not connected">>
                  ELSE WriteControl(ws[wsClient], writeOK)
       IN  IF err # NoError
           THEN /\ sub' = [sub EXCEPT ![s] = [NoSub EXCEPT !.pc = "failed", !.channel = channel]]
                /\ UNCHANGED <<srvSubs, wire>>
           ELSE /\ sub' = [sub EXCEPT ![s] =
                       [pc |-> "install", client |-> wsClient, channel |-> channel,
                        original |-> ws[wsClient].messageHandler, drops |-> 0,
                        unsubscribed |-> FALSE]]
                /\ srvSubs' = [srvSubs EXCEPT ![wsClient] = @ \cup {channel}]
                /\ wire' = [wire EXCEPT ![wsClient] =
                               Append(@, WsSubscribeReq("subscribe", channel))]
    /\ UNCHANGED <<clientVars, envVars, callVars, lastQuery, orders, wsURL,
                   wsClient, ws, loop, inbound, pushed, queue, wsRet, seen, recvd, unsubs,
                   prev, parseVars>>

SubscribeToTicker(s, exchangeId, writeOK) ==
    SubscribeBegin(s, TickerChannel(exchangeId), writeOK)

SubscribeToKline(s, priceType, exchangeId, klineType, writeOK) ==
    SubscribeBegin(s, KlineChannel(priceType, exchangeId, klineType), writeOK)

\* the rest of SubscribeToTicker / SubscribeToKline: the assignment of the
\* wrapper to c.messageHandler and the return of the queue
SetMessageHandler(s) ==
    /\ sub[s].pc = "install"
    /\ ws' = [ws EXCEPT ![sub[s].client].messageHandler = Filtered(s, sub[s].original)]
    /\ sub' = [sub EXCEPT ![s].pc = "done"]
    /\ UNCHANGED <<clientVars, envVars, callVars, lastQuery, orders, wsURL,
                   wsClient, loop, inbound, srvSubs, pushed, queue, wsRet, seen, logVars,
                   prev, parseVars>>

\* Unsubscribe that also takes the filters of the channel out of the handler
UnsubscribeRemovesFilter(channel, writeOK) ==
    /\ Constructed
    /\ wsClient # 0
    /\ Len(unsubs) < MaxUnsubs
    /\ LET err == WriteControl(ws[wsClient], writeOK)
           h == ws[wsClient].messageHandler
           kept == SelectSeq(h.filters, LAMBDA f : sub[f].channel # channel)
       IN  /\ unsubs' = Append(unsubs, [client |-> wsClient, channel |-> channel, err |-> err])
           /\ IF err # NoError
              THEN UNCHANGED <<srvSubs, sub, wire, ws>>
              ELSE /\ srvSubs' = [srvSubs EXCEPT ![wsClient] = @ \ {channel}]
                   /\ wire' = [wire EXCEPT ![wsClient] =
                                  Append(@, WsSubscribeReq("unsubscribe", channel))]
                   /\ ws' = [ws EXCEPT ![wsClient].messageHandler = Handler(kept, h.user)]
                   /\ sub' = [s \in Subs |->
                                IF sub[s].pc = "done" /\ sub[s].client = wsClient
                                      /\ sub[s].channel = channel
                                THEN [sub[s] EXCEPT !.unsubscribed = TRUE] ELSE sub[s]]
    /\ UNCHANGED <<clientVars, envVars, callVars, lastQuery, orders, wsURL,
                   wsClient, loop, inbound, pushed, queue, wsRet, seen, recvd,
                   prev, parseVars>>

\* WebSocketClient.Unsubscribe on the current WebSocketClient: the control
\* frame and nothing else; the subscriptions it has returned for are marked
Unsubscribe(channel, writeOK) ==
    /\ Constructed
    /\ wsClient # 0
    /\ Len(unsubs) < MaxUnsubs
    /\ LET err == WriteControl(ws[wsClient], writeOK)
       IN  /\ unsubs' = Append(unsubs, [client |-> wsClient, channel |-> channel, err |-> err])
           /\ IF err # NoError
              THEN UNCHANGED <<srvSubs, sub, wire>>
              ELSE /\ srvSubs' = [srvSubs EXCEPT ![wsClient] = @ \ {channel}]
                   /\ wire' = [wire EXCEPT ![wsClient] =
                                  Append(@, WsSubscribeReq("unsubscribe", channel))]
                   /\ sub' = [s \in Subs |->
                                IF sub[s].pc = "done" /\ sub[s].client = wsClient
                                      /\ sub[s].channel = channel
                                THEN [sub[s] EXCEPT !.unsubscribed = TRUE] ELSE sub[s]]
    /\ UNCHANGED <<clientVars, envVars, callVars, lastQuery, orders, wsURL,
                   wsClient, ws, loop, inbound, pushed, queue, wsRet, seen, recvd,
                   prev, parseVars>>

\* the filter that takes every frame that parses
MatchesAny(channel, msg) == ~UnmarshalWsRespBase(msg).err

\* the test of a filter: the frame parses as WsRespBase and its channel is
\* the channel of the subscription
Matches(channel, msg) ==
    /\ ~UnmarshalWsRespBase(msg).err
    /\ UnmarshalWsRespBase(msg).channel = channel

\* the send that makes room in a full queue by discarding its oldest frame
EnqueueDropOldest(q, msg) ==
    IF Len(q) < QueueCapacity THEN Append(q, msg) ELSE Append(Tail(q), msg)

\* the send that grows the queue beyond its capacity
EnqueueUnbounded(q, msg) == Append(q, msg)

\* select { case tickerChan <- msg: default: }: the frame is queued when
\* there is room and dropped otherwise
Enqueue(q, msg) == IF Len(q) < QueueCapacity THEN Append(q, msg) ELSE q

\* whether the filter of invocation s is in the handler
InChain(s, handler) == \E k \in 1..Len(handler.filters) : handler.filters[k] = s

\* the end of listenForMessages that does not call the error handler
OnReadErrorSilent(c, errors) ==
    [errors |-> errors,
     client |-> [c EXCEPT !.isConnected = FALSE, !.conn = "closed"],
     loop |-> "exited"]

\* the end of listenForMessages that reports the error and goes on reading
OnReadErrorRetry(c, errors) ==
    [errors |-> IF c.errorHandler THEN errors + 1 ELSE errors,
     client |-> [c EXCEPT !.isConnected = FALSE, !.conn = "closed"],
     loop |-> "reading"]

\* the end of listenForMessages: the error handler, if any, is called, and
\* the deferred function sets isConnected = false and closes the connection
OnReadError(c, errors) ==
    [errors |-> IF c.errorHandler THEN errors + 1 ELSE errors,
     client |-> [c EXCEPT !.isConnected = FALSE, !.conn = "closed"],
     loop |-> "exited"]

\* listenForMessages, one frame read: c.messageHandler as it is now is called
\* with the frame, which runs every filter wrapped into it and then the
\* handler given to NewWebSocketClient
ReadFrame(k) ==
    /\ loop[k] = "reading"
    /\ inbound[k] # <<>>
    /\ LET msg == Head(inbound[k])
           handler == ws[k].messageHandler
           hit(s) == InChain(s, handler) /\ Matches(sub[s].channel, msg)
       IN  /\ queue' = [s \in Subs |-> IF hit(s) THEN Enqueue(queue[s], msg) ELSE queue[s]]
           /\ sub' = [s \in Subs |->
                        IF hit(s) /\ Enqueue(queue[s], msg) = queue[s]
                        THEN [sub[s] EXCEPT !.drops = @ + 1] ELSE sub[s]]
           /\ seen' = IF handler.user THEN [seen EXCEPT ![k].frames = Append(@, msg)] ELSE seen
           /\ inbound' = [inbound EXCEPT ![k] = Tail(@)]
    /\ UNCHANGED <<clientVars, envVars, callVars, lastQuery, orders, wsURL,
                   wsClient, ws, loop, srvSubs, pushed, wsRet, logVars,
                   prev, parseVars>>

\* listenForMessages, ReadMessage fails (the connection was closed here, by
\* the peer, or broke): the frames not yet read are lost
ReadFails(k) ==
    /\ loop[k] = "reading"
    /\ LET r == OnReadError(ws[k], seen[k].errors)
       IN  /\ seen' = [seen EXCEPT ![k].errors = r.errors]
           /\ ws' = [ws EXCEPT ![k] = r.client]
           /\ loop' = [loop EXCEPT ![k] = r.loop]
    /\ inbound' = [inbound EXCEPT ![k] = <<>>]
    /\ srvSubs' = [srvSubs EXCEPT ![k] = {}]
    /\ UNCHANGED <<clientVars, envVars, callVars, lastQuery, orders, wsURL,
                   wsClient, pushed, sub, queue, wsRet, logVars,
                   prev, parseVars>>

\* ReadMessage on a connection that was closed here returns an error
ReadClosed(k) == ws[k].conn = "closed" /\ ReadFails(k)

\* Connect called again on WebSocketClient k: a failed dial only sets
\* isConnected = false; a successful one overwrites c.conn with the new
\* connection and starts one more listenForMessages, while the connection
\* held before and the listenForMessages reading it stay as they are
Reconnect(k, dialOK) ==
    /\ k \in 1..wsClient
    /\ loop[k] # "none"
    /\ Len(prev[k]) < MaxRedials
    /\ LET r == Connect(ws[k], dialOK)
       IN  /\ ws' = [ws EXCEPT ![k] = r.client]
           /\ IF r.listens
              THEN /\ prev' = [prev EXCEPT ![k] =
                                  Append(@, [conn |-> ws[k].conn, loop |-> loop[k],
                                             inbound |-> inbound[k]])]
                   /\ loop' = [loop EXCEPT ![k] = "reading"]
                   /\ seen' = [seen EXCEPT ![k].loops = @ + 1]
                   /\ inbound' = [inbound EXCEPT ![k] = <<>>]
                   /\ srvSubs' = [srvSubs EXCEPT ![k] = {}]
              ELSE UNCHANGED <<prev, loop, seen, inbound, srvSubs>>
    /\ UNCHANGED <<clientVars, envVars, callVars, lastQuery, orders, wsURL,
                   wsClient, pushed, sub, queue, wsRet, logVars, parseVars>>

\* the listenForMessages of an earlier connection of WebSocketClient k, one
\* frame read: it calls c.messageHandler as it is now
EarlierReadFrame(k, j) ==
    /\ j \in 1..Len(prev[k])
    /\ prev[k][j].loop = "reading"
    /\ prev[k][j].inbound # <<>>
    /\ LET msg == Head(prev[k][j].inbound)
           handler == ws[k].messageHandler
           hit(s) == InChain(s, handler) /\ Matches(sub[s].channel, msg)
       IN  /\ queue' = [s \in Subs |-> IF hit(s) THEN Enqueue(queue[s], msg) ELSE queue[s]]
           /\ sub' = [s \in Subs |->
                        IF hit(s) /\ Enqueue(queue[s], msg) = queue[s]
                        THEN [sub[s] EXCEPT !.drops = @ + 1] ELSE sub[s]]
           /\ seen' = IF handler.user THEN [seen EXCEPT ![k].frames = Append(@, msg)] ELSE seen
           /\ prev' = [prev EXCEPT ![k][j].inbound = Tail(@)]
    /\ UNCHANGED <<clientVars, envVars, callVars, lastQuery, orders, wsURL,
                   wsClient, ws, loop, inbound, srvSubs, pushed, wsRet, logVars,
                   parseVars>>

\* the listenForMessages of an earlier connection of WebSocketClient k,
\* ReadMessage fails: the error handler and the deferred function run on the
\* fields of the WebSocketClient; c.conn is read without synchronisation
\* with the Connect that has overwritten it, so the connection that is
\* closed is the one the client holds now (seesNew) or the one it held
EarlierReadFails(k, j, seesNew) ==
    /\ j \in 1..Len(prev[k])
    /\ prev[k][j].loop = "reading"
    /\ LET r == OnReadError(ws[k], seen[k].errors)
       IN  /\ seen' = [seen EXCEPT ![k].errors = r.errors]
           /\ ws' = [ws EXCEPT ![k] =
                        IF seesNew THEN r.client
                        ELSE [ws[k] EXCEPT !.isConnected = r.client.isConnected]]
           /\ prev' = [prev EXCEPT ![k][j] =
                          [conn |-> IF seesNew THEN @.conn ELSE r.client.conn,
                           loop |-> r.loop, inbound |-> <<>>]]
           /\ srvSubs' = IF seesNew THEN [srvSubs EXCEPT ![k] = {}] ELSE srvSubs
    /\ UNCHANGED <<clientVars, envVars, callVars, lastQuery, orders, wsURL,
                   wsClient, loop, inbound, pushed, sub, queue, wsRet, logVars,
                   parseVars>>

\* the caller receives from the queue a subscribe has returned
Recv(s) ==
    /\ sub[s].pc = "done"
    /\ queue[s] # <<>>
    /\ queue' = [queue EXCEPT ![s] = Tail(@)]
    /\ recvd' = [recvd EXCEPT ![s] = Head(queue[s])]
    /\ UNCHANGED <<clientVars, envVars, callVars, lastQuery, orders, wsURL,
                   wsClient, ws, loop, inbound, srvSubs, pushed, sub, wsRet, seen,
                   wire, unsubs,
                   prev, parseVars>>

(* ----------------------------- the server ----------------------------- *)
\* the n-th frame of the server, for a channel
DataFrame(channel, n) ==
    Object(Str(channel), Str("payload"), Array(<<MarshalKline(KLine("200001", n))>>))

\* the server sends, on an open connection, a frame of a channel subscribed
\* on that connection, or text that is no JSON
ServerFrames(k, n) == {DataFrame(c, n) : c \in srvSubs[k]} \cup {Garbage(n)}

ServerPush(k, msg, limit) ==
    /\ ws[k].conn = "open"
    /\ pushed < limit
    /\ Len(inbound[k]) < MaxInFlight
    /\ inbound' = [inbound EXCEPT ![k] = Append(@, msg)]
    /\ pushed' = pushed + 1
    /\ UNCHANGED <<clientVars, envVars, callVars, lastQuery, orders, wsURL,
                   wsClient, ws, loop, srvSubs, sub, queue, wsRet, seen, logVars,
                   prev, parseVars>>

(* -------------------------- specifications ---------------------------- *)
\* the two shapes of submission the SDK's own operations make: CreateOrder
\* (unordered) and BindAgent (ordered)
Requests ==
    {[typeURL |-> MsgCreateOrderTypeURL, unordered |-> TRUE],
     [typeURL |-> MsgBindAgentTypeURL, unordered |-> FALSE]}

InFlight(i) == pc[i] \notin {"idle", "done"}

\* invocations are interchangeable: they are numbered in the order they start
StartsNext(i) == \A j \in Calls : j < i => pc[j] # "idle"

\* concurrent callers of one client
Next ==
    \/ \E ok \in BOOLEAN, h \in Hosts, r \in FirstReplies(serverSeq) :
          NewAntxClient(ok, h, r)
    \/ \E i \in Calls, q \in Requests, ok \in BOOLEAN :
          StartsNext(i) /\ Build(i, q.typeURL, PlainMsg(q.typeURL), q.unordered, ok)
                        /\ UNCHANGED orders
    \/ \E i \in Calls, ok \in BOOLEAN : ImportKey(i, ok)
    \/ \E i \in Calls, r \in AccountReplies(serverSeq) : FetchSequence(i, r)
    \/ \E i \in Calls, ok \in BOOLEAN : Sign(i, ok)
    \/ \E i \in Calls, ok \in BOOLEAN : Encode(i, ok)
    \/ \E i \in Calls, r \in SendReplies : Send(i, r)
    \/ Tick

Spec == Init /\ [][Next]_vars

\* a caller that starts an operation only after the previous one has returned
Idle == lastQuery = NoQuery /\ \A j \in Calls : ~InFlight(j)

NextSerial ==
    \/ \E ok \in BOOLEAN, h \in Hosts, r \in FirstReplies(serverSeq) :
          NewAntxClient(ok, h, r)
    \/ \E g \in Gateways : Idle /\ SetGateway(g.baseURL, g.wsURL)
    \/ \E i \in Calls, q \in Requests, ok \in BOOLEAN :
          Idle /\ StartsNext(i) /\ Build(i, q.typeURL, PlainMsg(q.typeURL), q.unordered, ok)
               /\ UNCHANGED orders
    \/ \E i \in Calls, ok \in BOOLEAN : ImportKey(i, ok)
    \/ \E i \in Calls, r \in AccountReplies(serverSeq) : FetchSequence(i, r)
    \/ \E i \in Calls, ok \in BOOLEAN : Sign(i, ok)
    \/ \E i \in Calls, ok \in BOOLEAN : Encode(i, ok)
    \/ \E i \in Calls, r \in SendReplies : Send(i, r)
    \/ \E r \in AccountReplies(serverSeq) : Idle /\ FetchAccount(r)
    \/ \E ok \in BOOLEAN, c \in {"0", "1"} : Idle /\ GetCoinList(ok, c)
    \/ DropResult

SpecSerial == Init /\ [][NextSerial]_vars

\* one caller that submits one batch of orders
NextBatch ==
    \/ \E ok \in BOOLEAN, h \in Hosts, r \in FirstReplies(serverSeq) :
          NewAntxClient(ok, h, r)
    \/ \E param \in BatchParams, ok \in BOOLEAN : CreateOrderBatch(1, param, ok)
    \/ \E i \in Calls, ok \in BOOLEAN : ImportKey(i, ok)
    \/ \E i \in Calls, ok \in BOOLEAN : Sign(i, ok)
    \/ \E i \in Calls, ok \in BOOLEAN : Encode(i, ok)
    \/ \E i \in Calls, r \in SendReplies : Send(i, r)

SpecBatch == Init /\ [][NextBatch]_vars

\* concurrent callers of the order operations and of BindAgent on a client
\* with a gateway
NextOps ==
    \/ \E r \in FirstReplies(serverSeq) : NewAntxClient(TRUE, GatewayHost, r)
    \/ \E i \in Calls, ok \in BOOLEAN : StartsNext(i) /\ CreateOrder(i, ok)
    \/ \E i \in Calls, param \in BatchParams :
          /\ StartsNext(i)
          /\ Len(param.createOrderParam) = MaxBatch /\ param.leverage = 5
          /\ \A k \in 1..MaxBatch : param.createOrderParam[k].isBuy
          /\ CreateOrderBatch(i, param, TRUE)
    \/ \E i \in Calls : StartsNext(i) /\ CancelOrder(i, TRUE)
    \/ \E i \in Calls : StartsNext(i) /\ CancelOrderByClientId(i, TRUE)
    \/ \E i \in Calls : StartsNext(i) /\ CancelAllOrder(i, TRUE)
    \/ \E i \in Calls : StartsNext(i) /\ CloseAllPosition(i, TRUE)
    \/ \E i \in Calls, keyOK \in BOOLEAN, ok \in BOOLEAN : StartsNext(i) /\ BindAgent(i, keyOK, ok)
    \/ \E i \in Calls : ImportKey(i, TRUE)
    \/ \E i \in Calls, r \in AccountReplies(serverSeq) : FetchSequence(i, r)
    \/ \E i \in Calls : Sign(i, TRUE)
    \/ \E i \in Calls : Encode(i, TRUE)
    \/ \E i \in Calls, r \in SendReplies : r.hash = <<>> /\ r.txId = <<>> /\ Send(i, r)

SpecOps == Init /\ [][NextOps]_vars

\* the frame parsers, applied once to any of the frames
InitParse ==
    /\ InitSubmit
    /\ InitStream
    /\ frameIn \in ParserInputs
    /\ parsed = NoParsed

NextParse ==
    \/ ParseTickerData
    \/ ParseKlineData

SpecParse == InitParse /\ [][NextParse]_vars

\* the life of the stream connections of one query client: connects,
\* disconnects, the read loops and the frames the server sends unasked
NextConn ==
    \/ \E w \in WsHosts : NewAntxQueryClient(GatewayHost, w)
    \/ \E h \in BOOLEAN, ok \in BOOLEAN : ConnectWebSocket(h, h, ok)
    \/ DisconnectWebSocket
    \/ \E k \in Clients : \E msg \in ServerFrames(k, pushed + 1) : ServerPush(k, msg, MaxFrames)
    \/ \E k \in Clients : ReadFrame(k)
    \/ \E k \in Clients : ReadFails(k)

SpecConn == Init /\ [][NextConn]_vars

\* the same, where a read loop whose connection is closed comes to run: its
\* read returns the error
SpecConnLive == SpecConn /\ \A k \in Clients : WF_vars(ReadClosed(k))

\* the lifecycle of the connections where Connect is also called again on a
\* WebSocketClient that has connected before
NextRedial ==
    \/ NewAntxQueryClient(GatewayHost, WsHost)
    \/ \E ok \in BOOLEAN : ConnectWebSocket(TRUE, TRUE, ok)
    \/ DisconnectWebSocket
    \/ \E k \in Clients, ok \in BOOLEAN : Reconnect(k, ok)
    \/ \E k \in Clients : \E msg \in ServerFrames(k, pushed + 1) : ServerPush(k, msg, MaxFrames)
    \/ \E k \in Clients : ReadFrame(k)
    \/ \E k \in Clients : ReadFails(k)
    \/ \E k \in Clients, j \in 1..MaxRedials : EarlierReadFrame(k, j)
    \/ \E k \in Clients, j \in 1..MaxRedials, seesNew \in BOOLEAN :
          EarlierReadFails(k, j, seesNew)

SpecRedial == Init /\ [][NextRedial]_vars

\* the subscriptions on the first connection of a query client, next to its
\* read loop, the server and the consumers of the queues
NextSubsCommon ==
    \/ NewAntxQueryClient(GatewayHost, WsHost)
    \/ \E h \in BOOLEAN, ok \in BOOLEAN : wsClient = 0 /\ ConnectWebSocket(h, h, ok)
    \/ \E s \in Subs : SetMessageHandler(s)
    \/ \E k \in Clients : \E msg \in ServerFrames(k, pushed + 1) : ServerPush(k, msg, MaxFrames)
    \/ \E k \in Clients : ReadFrame(k)
    \/ \E k \in Clients : ReadFails(k)
    \/ \E s \in Subs : Recv(s)

\* subscribe called from several goroutines
NextSubs ==
    \/ NextSubsCommon
    \/ \E s \in Subs, e \in ExchangeIds, ok \in BOOLEAN : SubscribeToTicker(s, e, ok)
    \/ \E s \in Subs, p \in PriceTypes, e \in ExchangeIds, t \in KlineTypes, ok \in BOOLEAN :
          SubscribeToKline(s, p, e, t, ok)

SpecSubs == Init /\ [][NextSubs]_vars

\* subscribe called again only after the previous call has returned
NoSubscribeRunning == \A s \in Subs : sub[s].pc # "install"

NextSubsSerial ==
    \/ NextSubsCommon
    \/ \E s \in Subs, e \in ExchangeIds, ok \in BOOLEAN :
          NoSubscribeRunning /\ SubscribeToTicker(s, e, ok)
    \/ \E s \in Subs, p \in PriceTypes, e \in ExchangeIds, t \in KlineTypes, ok \in BOOLEAN :
          NoSubscribeRunning /\ SubscribeToKline(s, p, e, t, ok)

SpecSubsSerial == Init /\ [][NextSubsSerial]_vars

\* subscriptions made one after the other on a connection, and calls of
\* Unsubscribe
NextUnsub ==
    \/ NewAntxQueryClient(GatewayHost, WsHost)
    \/ wsClient = 0 /\ ConnectWebSocket(TRUE, TRUE, TRUE)
    \/ \E s \in Subs, e \in ExchangeIds :
          NoSubscribeRunning /\ SubscribeToTicker(s, e, TRUE)
    \/ \E s \in Subs, p \in PriceTypes, e \in ExchangeIds, t \in KlineTypes :
          NoSubscribeRunning /\ SubscribeToKline(s, p, e, t, TRUE)
    \/ \E s \in Subs : SetMessageHandler(s)
    \/ \E e \in ExchangeIds, p \in PriceTypes, t \in KlineTypes, ok \in BOOLEAN :
          \/ Unsubscribe(TickerChannel(e), ok)
          \/ Unsubscribe(KlineChannel(p, e, t), ok)
    \/ \E k \in Clients : \E msg \in ServerFrames(k, pushed + 1) : ServerPush(k, msg, MaxFrames)
    \/ \E k \in Clients : ReadFrame(k)
    \/ \E k \in Clients : ReadFails(k)

SpecUnsub == Init /\ [][NextUnsub]_vars

\* one caller that connects, subscribes, disconnects, changes the addresses
\* and connects again, next to the read loops and the server
NextLife ==
    \/ NewAntxQueryClient(GatewayHost, WsHost)
    \/ \E g \in Gateways : SetGateway(g.baseURL, g.wsURL)
    \/ \E ok \in BOOLEAN : NoSubscribeRunning /\ ConnectWebSocket(TRUE, TRUE, ok)
    \/ NoSubscribeRunning /\ DisconnectWebSocket
    \/ \E s \in Subs, e \in ExchangeIds, ok \in BOOLEAN :
          NoSubscribeRunning /\ SubscribeToTicker(s, e, ok)
    \/ \E s \in Subs : SetMessageHandler(s)
    \/ \E k \in Clients : \E c \in srvSubs[k] :
          ServerPush(k, DataFrame(c, pushed + 1), MaxFrames)
    \/ \E k \in Clients : ReadFrame(k)
    \/ \E k \in Clients : ReadFails(k)

SpecLife == Init /\ [][NextLife]_vars

\* one subscription whose channel the server floods
NextFlood ==
    \/ NewAntxQueryClient(GatewayHost, WsHost)
    \/ wsClient = 0 /\ ConnectWebSocket(TRUE, TRUE, TRUE)
    \/ \E e \in ExchangeIds : SubscribeToTicker(1, e, TRUE)
    \/ SetMessageHandler(1)
    \/ \E k \in Clients : \E c \in srvSubs[k] :
          ServerPush(k, DataFrame(c, pushed + 1), FloodFrames)
    \/ \E k \in Clients : ReadFrame(k)
    \/ Recv(1)

SpecFlood == Init /\ [][NextFlood]_vars

(* ============================== claims ================================ *)
Ordered(i) == pc[i] # "idle" /\ ~args[i].unordered
Unordered(i) == pc[i] # "idle" /\ args[i].unordered
Signed(i) == txBuilder[i].signed

\* C1: every ordered submission that reaches signing carries in its signed
\* envelope the sequence returned by the one account-state fetch made inside
\* the same invocation.
C1_SequenceIsFetched ==
    \A i \in Calls :
        Ordered(i) /\ Signed(i) =>
            /\ trace[i].fetches = 1
            /\ trace[i].fetched.err = NoError
            /\ trace[i].fetched.sequence = FormatUint(txBuilder[i].sequence)

\* an ordered envelope signed with a sequence that the server reached only
\* through another invocation's accepted transaction
C1_Witness ==
    \E i \in Calls :
        /\ Ordered(i) /\ Signed(i)
        /\ txBuilder[i].sequence = StartSeq + 1
        /\ trace[i].fetched.sequence = <<"1", "0">>

\* C2: an unordered submission carries the unordered marker and an expiry
\* equal to the time of the call plus exactly 10 seconds, issues no sequence
\* fetch and populates no sequence; an ordered submission carries neither
\* the marker nor an expiry.  The expiry is set when the envelope is built
\* and never changes afterwards.
C2_Built(i) == Len(txBuilder[i].msgs) = 1

C2_Shape ==
    \A i \in Calls :
        /\ Unordered(i) /\ C2_Built(i) =>
              /\ txBuilder[i].unordered
              /\ txBuilder[i].timeout # NoTimeout
              /\ trace[i].fetches = 0 /\ trace[i].netFetches = 0
              /\ txBuilder[i].sequence = 0 /\ txFactory[i].sequence = 0
        /\ Ordered(i) /\ C2_Built(i) =>
              /\ ~txBuilder[i].unordered
              /\ txBuilder[i].timeout = NoTimeout

C2_ExpiryStep ==
    \A i \in Calls :
        /\ pc[i] = "idle" /\ pc'[i] = "import" /\ args'[i].unordered =>
              txBuilder'[i].timeout = [sec |-> now.sec + 10, nsec |-> now.nsec]
        /\ pc[i] # "idle" => txBuilder'[i].timeout = txBuilder[i].timeout

C2_UnorderedExpiry == []C2_Shape /\ [][C2_ExpiryStep]_vars

\* an unordered envelope built after the clock moved past a full second,
\* signed and posted with its expiry
C2_Witness ==
    \E i \in Calls :
        /\ Unordered(i) /\ Signed(i) /\ Len(posts[i]) = 1
        /\ now = [sec |-> 101, nsec |-> 1]
        /\ txBuilder[i].timeout = [sec |-> 111, nsec |-> 1]
        /\ posts[i][1].req.rawTx.b64.bytes.timeout = [sec |-> 111, nsec |-> 1]

\* C3: when the gateway answers the POST with a code other than "0" the
\* submit returns an error that carries the gateway's message and no handle;
\* a nil error comes only with code "0".
C3_Answered(i) == pc[i] = "done" /\ Len(trace[i].stages) > 0 /\ trace[i].resp # NoResp

C3_NonZeroCodeIsError ==
    \A i \in Calls :
        C3_Answered(i) /\ trace[i].resp.code # "0" =>
            /\ ret[i].err # NoError
            /\ \E k \in 1..Len(ret[i].err) : ret[i].err[k] = trace[i].resp.msg
            /\ ret[i].hash = <<>>

\* C4: a failed sequence fetch (transport failure, code other than "0", or
\* a sequence that is not an unsigned integer) fails the whole submit:
\* an error and no handle are returned, nothing is signed and nothing is
\* posted, whatever the gateway configuration of the client.
C4_FetchFailed(i) ==
    /\ trace[i].fetches > 0
    /\ \/ trace[i].fetched.err # NoError
       \/ trace[i].fetched.sequence = <<>>
       \/ \E k \in 1..Len(trace[i].fetched.sequence) :
             ~IsDigit(trace[i].fetched.sequence[k])

C4_FetchFailureFailsSubmit ==
    \A i \in Calls :
        C4_FetchFailed(i) =>
            /\ pc[i] = "done"
            /\ ret[i].err # NoError /\ ret[i].hash = <<>>
            /\ ~Signed(i)
            /\ posts[i] = <<>>
            /\ trace[i].stages = <<"build", "import", "fetch">>

\* one submit failed on the gateway's code, another on the sequence text
C4_Witness ==
    \E i, j \in Calls :
        /\ trace[i].fetched.err = <<"get account info failed", "account not found">>
        /\ trace[j].fetches = 1 /\ trace[j].fetched.err = NoError
        /\ trace[j].fetched.sequence = <<"-", "1">>
        /\ pc[i] = "done" /\ pc[j] = "done"

\* C5: concurrent ordered submissions are not mutually excluded.  Two
\* invocations that were given the same sequence by their fetches sign
\* their envelopes with that same sequence, and of the envelopes posted
\* with one sequence the ledger accepts at most one.
C5_SameFetchSameSequence ==
    \A i, j \in Calls :
        /\ i # j /\ Ordered(i) /\ Ordered(j) /\ Signed(i) /\ Signed(j)
        => /\ trace[i].fetched.sequence = trace[j].fetched.sequence
                => txBuilder[i].sequence = txBuilder[j].sequence
           /\ /\ txBuilder[i].sequence = txBuilder[j].sequence
              /\ Len(posts[i]) > 0 /\ Len(posts[j]) > 0
              => ~(posts[i][1].accepted /\ posts[j][1].accepted)

\* both invocations have fetched the same sequence and signed with it, and
\* neither has posted yet
C5_Witness ==
    \E i, j \in Calls :
        /\ i # j /\ Ordered(i) /\ Ordered(j)
        /\ pc[i] = "send" /\ pc[j] = "send"
        /\ baseURL = GatewayHost
        /\ trace[i].netFetches = 1 /\ trace[j].netFetches = 1
        /\ txBuilder[i].sequence = txBuilder[j].sequence
        /\ posts[i] = <<>> /\ posts[j] = <<>>

\* the envelope inside a POST body
Posted(p) == p.req.rawTx.b64.bytes

\* C6: a caller that runs its ordered submissions one after the other never
\* has one sequence used by two accepted ordered transactions: every posted
\* ordered envelope carries the sequence the server expects at that moment,
\* because each invocation fetches it anew.
C6_SerialNoReuse ==
    /\ \A i, j \in Calls :
          /\ i # j /\ Ordered(i) /\ Ordered(j)
          /\ Len(posts[i]) > 0 /\ Len(posts[j]) > 0
          /\ posts[i][1].accepted /\ posts[j][1].accepted
          => Posted(posts[i][1]).sequence # Posted(posts[j][1]).sequence
    /\ \A i \in Calls :
          Ordered(i) =>
              \A k \in 1..Len(posts[i]) : Posted(posts[i][k]).sequence = posts[i][k].seqAtPost

\* two ordered submissions, one after the other, both accepted, the second
\* with the advanced sequence
C6_Witness ==
    \E i, j \in Calls :
        /\ Ordered(i) /\ Ordered(j)
        /\ pc[i] = "done" /\ pc[j] = "done"
        /\ Len(posts[i]) = 1 /\ Len(posts[j]) = 1
        /\ posts[i][1].accepted /\ posts[j][1].accepted
        /\ Posted(posts[i][1]).sequence = StartSeq
        /\ Posted(posts[j][1]).sequence = StartSeq + 1

\* no stage of an invocation runs twice
C7_NoStageTwice(i) ==
    \A k, l \in 1..Len(trace[i].stages) :
        k # l => trace[i].stages[k] # trace[i].stages[l]

C7_SendRan(i) == \E k \in 1..Len(trace[i].stages) : trace[i].stages[k] = "send"

C7_AtMostOnce(i) ==
    /\ trace[i].fetches <= 1
    /\ trace[i].netFetches <= 1
    /\ Len(posts[i]) <= 1
    /\ C7_NoStageTwice(i)

Path(unordered) ==
    IF unordered THEN <<"build", "import", "sign", "encode", "send">> ELSE Stages

\* the stage an error message belongs to
ErrStage(err) ==
    IF err[1] = "failed to set messages" THEN "build"
    ELSE IF err[1] = "failed to import private key to keyring" THEN "import"
    ELSE IF err[1] \in {"failed to get account number and sequence",
                        "failed to parse sequence"} THEN "fetch"
    ELSE IF err[1] = "failed to sign transaction" THEN "sign"
    ELSE IF err[1] = "failed to encode transaction" THEN "encode"
    ELSE "send"

\* C8: a submit that returns an error returns the empty handle, has run the
\* stages up to the failing one and none after it, and has posted nothing
\* unless the failing stage is the POST itself.
C8_ErrorStopsSubmit ==
    \A i \in Calls :
        ret[i].err # NoError =>
            LET st == ErrStage(ret[i].err)
                path == Path(args[i].unordered)
            IN  /\ pc[i] = "done"
                /\ ret[i].hash = <<>>
                /\ \E k \in 1..Len(path) :
                      path[k] = st /\ trace[i].stages = SubSeq(path, 1, k)
                /\ st # "send" => posts[i] = <<>>
                /\ st \in {"build", "import", "fetch", "sign"} => ~Signed(i)

\* one submit failed at signing, another at encoding, nothing was posted
C8_Witness ==
    \E i, j \in Calls :
        /\ ret[i].err = <<"failed to sign transaction">>
        /\ ret[j].err = <<"failed to encode transaction">>
        /\ baseURL = GatewayHost
        /\ posts[i] = <<>> /\ posts[j] = <<>>

\* C9: the handle of a successful submit is the first non-empty one of the
\* answer's txHash, hash and txId, in that order.
C9_HandlePriority ==
    \A i \in Calls :
        pc[i] = "done" /\ ret[i].err = NoError =>
            LET r == trace[i].resp
            IN  /\ r.txHash # <<>> => ret[i].hash = r.txHash
                /\ r.txHash = <<>> /\ r.hash # <<>> => ret[i].hash = r.hash
                /\ r.txHash = <<>> /\ r.hash = <<>> => ret[i].hash = r.txId

\* an answer without txHash but with hash and txId: hash is returned; and
\* another with all three: txHash is returned
C9_Witness ==
    \E i, j \in Calls :
        /\ pc[i] = "done" /\ ret[i].err = NoError
        /\ trace[i].resp.txHash = <<>> /\ trace[i].resp.hash = <<"H">>
        /\ trace[i].resp.txId = <<"I">> /\ ret[i].hash = <<"H">>
        /\ pc[j] = "done" /\ ret[j].err = NoError
        /\ trace[j].resp.txHash = <<"T">> /\ trace[j].resp.hash = <<"H">>
        /\ trace[j].resp.txId = <<"I">> /\ ret[j].hash = <<"T">>

\* every signed envelope and every POST body carries the cached account number
C10_CarriesCached ==
    \A i \in Calls :
        /\ Signed(i) => txBuilder[i].accountNumber = accountNumber
        /\ \A k \in 1..Len(posts[i]) :
              /\ posts[i][k].req.accountNumber = accountNumber
              /\ Posted(posts[i][k]).accountNumber = accountNumber

\* no step of a constructed client changes the cached account number
C10_Frame == cstate = "ready" => accountNumber' = accountNumber /\ acctLoads' = acctLoads

C10_Construction ==
    cstate = "new" /\ cstate' = "ready" =>
        /\ acctLoads' = IF baseURL' = NoHost THEN 0 ELSE 1
        /\ baseURL' = NoHost => accountNumber' = 0

C20_Batch(i) == pc[i] # "idle" /\ args[i].typeURL = MsgCreateOrderBatchTypeURL

\* the instruction holds the orders of the parameter, as many and in the
\* same order, under the shared fields of the parameter
C20_HoldsOrders(m, param) ==
    /\ m.typeURL = MsgCreateOrderBatchTypeURL
    /\ m.subaccountId = param.subaccountId
    /\ m.exchangeId = param.exchangeId
    /\ m.marginMode = param.marginMode
    /\ m.leverage = param.leverage
    /\ Len(m.createOrderParam) = Len(param.createOrderParam)
    /\ \A k \in 1..Len(param.createOrderParam) :
          /\ m.createOrderParam[k].isBuy = param.createOrderParam[k].isBuy
          /\ m.createOrderParam[k].priceValue = param.createOrderParam[k].priceValue
          /\ m.createOrderParam[k].clientOrderId = param.createOrderParam[k].clientOrderId

\* C20: CreateOrderBatch with n order details builds one envelope with one
\* batch instruction that holds those n orders in the given order under the
\* shared parameters; the gateway gets at most one POST from the call, that
\* POST carries the whole envelope, and it is exactly one POST when the call
\* returns a handle from a gateway: the batch is handed over whole or not
\* at all.
C20_WholeBatchOrNothing ==
    \A i \in Calls : C20_Batch(i) =>
        /\ txBuilder[i].msgs \in {<<>>, <<args[i].msg>>}
        /\ C20_HoldsOrders(args[i].msg, orders[i])
        /\ Len(posts[i]) <= 1
        /\ \A k \in 1..Len(posts[i]) :
              /\ txBuilder[i].msgs = <<args[i].msg>>
              /\ posts[i][k].req.typeURL = MsgCreateOrderBatchTypeURL
              /\ posts[i][k].req.rawTx = Base64(TxEncoder(txBuilder[i]))
        /\ (pc[i] = "done" /\ ret[i].err = NoError /\ baseURL # NoHost) => Len(posts[i]) = 1
        /\ (pc[i] = "done" /\ ret[i].err # NoError /\ ErrStage(ret[i].err) # "send")
              => posts[i] = <<>>

\* a batch of two different orders was posted once and a handle returned
C20_Witness ==
    \E i \in Calls :
        /\ C20_Batch(i)
        /\ pc[i] = "done"
        /\ ret[i].err = NoError
        /\ Len(posts[i]) = 1
        /\ Len(orders[i].createOrderParam) = 2
        /\ orders[i].createOrderParam[1] # orders[i].createOrderParam[2]

(* ------------------------------- C19 ---------------------------------- *)
C19_Kind == IF parsed.fn = "ParseTickerData" THEN "ticker" ELSE "kline"

C19_Values(kind) ==
    IF kind = "ticker" THEN {MarshalTicker(x) : x \in TickerValues}
    ELSE {MarshalKline(x) : x \in KlineValues}

\* the typed value whose JSON text is e
C19_Typed(kind, e) ==
    IF kind = "ticker" THEN CHOOSE x \in TickerValues : MarshalTicker(x) = e
    ELSE CHOOSE x \in KlineValues : MarshalKline(x) = e

C19_Envelope(f) ==
    /\ f.json = "object"
    /\ f.channel.t \in {"absent", "string"}
    /\ f.event.t \in {"absent", "string"}

\* {channel, event, data: [X, ...]} with every element the text of a value
\* of the parser's type
C19_WellFormed(kind, f) ==
    /\ C19_Envelope(f)
    /\ f.data.t = "array"
    /\ Len(f.data.a) >= 1
    /\ \A k \in 1..Len(f.data.a) : f.data.a[k] \in C19_Values(kind)

C19_NoPayload(f) ==
    /\ C19_Envelope(f)
    /\ f.data.t \in {"absent", "null"} \/ (f.data.t = "array" /\ f.data.a = <<>>)

\* text that is no JSON, JSON that is no object, or an object whose channel
\* or data member has the wrong type
C19_NoEnvelope(f) ==
    \/ f.json \in {"invalid", "array"}
    \/ f.json = "object" /\ (f.channel.t = "number" \/ f.data.t = "object")

FrameRead(k) ==
    /\ loop[k] = "reading"
    /\ loop'[k] = "reading"
    /\ inbound[k] # <<>>
    /\ inbound'[k] = Tail(inbound[k])

\* subscribe s has returned its queue, from WebSocketClient k
Subscribed(s, k) == sub[s].pc = "done" /\ sub[s].client = k

\* the outer channel field of the frame is the channel of subscription s
OnChannel(s, msg) == msg.json = "object" /\ msg.channel = Str(sub[s].channel)

C11_OnlyOwnChannel ==
    \A s \in Subs : \A j \in 1..Len(queue[s]) : OnChannel(s, queue[s][j])

C11_DeliveryStep ==
    \A k \in Clients : FrameRead(k) =>
        \A s \in Subs :
            (Subscribed(s, k) /\ OnChannel(s, Head(inbound[k]))
                /\ Len(queue[s]) < QueueCapacity)
            => queue'[s] = Append(queue[s], Head(inbound[k]))

\* C11: after a subscribe to channel C has returned, every frame received
\* afterwards on that connection whose channel field is C is put on the queue
\* the subscribe returned, provided the queue is not full, and no frame with
\* another channel field is ever on that queue.
C11_RoutedByChannel == []C11_OnlyOwnChannel /\ [][C11_DeliveryStep]_vars

\* a queue holds a frame of its channel while the handler of the connection
\* has also seen a frame of another channel
C11_Witness ==
    \E s \in Subs, k \in Clients :
        /\ Subscribed(s, k)
        /\ queue[s] # <<>>
        /\ \E j \in 1..Len(seen[k].frames) :
              /\ seen[k].frames[j].json = "object"
              /\ ~OnChannel(s, seen[k].frames[j])

(* ------------------------------- C12 ---------------------------------- *)
C12_Bounded == \A s \in Subs : Len(queue[s]) <= QueueCapacity

\* a frame of the channel read while the queue is full leaves the queue as
\* it is, and the loop reads on and hands the frame to the handler
C12_DropStep ==
    \A k \in Clients : FrameRead(k) =>
        \A s \in Subs :
            (Subscribed(s, k) /\ OnChannel(s, Head(inbound[k]))
                /\ Len(queue[s]) = QueueCapacity)
            => /\ queue'[s] = queue[s]
               /\ sub'[s].drops = sub[s].drops + 1
               /\ ws[k].messageHandler.user
                     => seen'[k].frames = Append(seen[k].frames, Head(inbound[k]))

\* the frames on a queue are in the order they came, none of them twice
C12_InOrder ==
    \A s \in Subs : \A i, j \in 1..Len(queue[s]) :
        i < j => queue[s][i].data.a[1].klineTime.n < queue[s][j].data.a[1].klineTime.n

\* C12: a queue never holds more than its capacity of 100 frames; a frame of
\* its channel that arrives while it is full is dropped, the frames queued
\* stay, and the read loop goes on with the following frames, whether or not
\* the consumer ever receives.
C12_EnqueueNeverBlocks ==
    [](C12_Bounded /\ C12_InOrder) /\ [][C12_DropStep]_vars

\* capacity + 1 frames were sent, the first 100 of the channel are queued,
\* one was dropped, and the read loop has handed every frame to the handler
C12_Witness ==
    \E s \in Subs, k \in Clients :
        /\ Subscribed(s, k)
        /\ Len(queue[s]) = QueueCapacity
        /\ sub[s].drops = 1
        /\ pushed = QueueCapacity + 1
        /\ Len(seen[k].frames) = QueueCapacity + 1
        /\ inbound[k] = <<>>
        /\ loop[k] = "reading"

(* ------------------------------- C13 ---------------------------------- *)
\* the handler of a connection holds the filter of every subscribe that has
\* returned from it, once each, around the handler it was created with
C13_Chain ==
    \A k \in Clients :
        /\ \A s \in Subs : Subscribed(s, k) => InChain(s, ws[k].messageHandler)
        /\ \A i, j \in 1..Len(ws[k].messageHandler.filters) :
              ws[k].messageHandler.filters[i] = ws[k].messageHandler.filters[j] => i = j

C13_Step ==
    \A k \in Clients : FrameRead(k) =>
        LET msg == Head(inbound[k])
        IN  /\ \A s \in Subs : Subscribed(s, k) =>
                  queue'[s] = IF OnChannel(s, msg) /\ Len(queue[s]) < QueueCapacity
                              THEN Append(queue[s], msg) ELSE queue[s]
            /\ seen'[k].frames = IF ws[k].messageHandler.user
                                 THEN Append(seen[k].frames, msg) ELSE seen[k].frames

\* C13: after k subscribes have returned on a connection created with handler
\* H, every frame read is tested by all k filters, each putting it on its own
\* queue iff the channel matches (and there is room), and is then handed to H
\* exactly once, whether or not it matched, was dropped or failed to parse.
C13_WrappersCompose == []C13_Chain /\ [][C13_Step]_vars

\* two subscriptions to one channel hold the same frame, and H has seen it
\* and a frame that does not parse
C13_Witness ==
    \E s, t \in Subs, k \in Clients :
        /\ s # t
        /\ Subscribed(s, k) /\ Subscribed(t, k)
        /\ sub[s].channel = sub[t].channel
        /\ queue[s] # <<>>
        /\ queue[s] = queue[t]
        /\ \E j \in 1..Len(seen[k].frames) : seen[k].frames[j] = queue[s][1]
        /\ \E j \in 1..Len(seen[k].frames) : seen[k].frames[j].json = "invalid"

(* ------------------------------- C14 ---------------------------------- *)
\* C14: once unsubscribe(C) has returned, a frame of channel C read
\* afterwards is not put on the queue of the earlier subscribe(C).
C14_NoRoutingAfterUnsubscribe ==
    [][\A k \in Clients : FrameRead(k) =>
          \A s \in Subs :
              (Subscribed(s, k) /\ sub[s].unsubscribed /\ OnChannel(s, Head(inbound[k])))
              => queue'[s] = queue[s]]_vars

(* ------------------------------- C15 ---------------------------------- *)
\* C15: whatever the interleaving of concurrent subscribes, the filter of
\* every subscribe that has returned is in the handler of its connection.
C15_BothFiltersInstalled ==
    \A s \in Subs : sub[s].pc = "done" => InChain(s, ws[sub[s].client].messageHandler)

(* ------------------------------- C16 ---------------------------------- *)
C16_Ended ==
    \A k \in Clients :
        /\ loop[k] = "exited" =>
              /\ seen[k].errors = IF ws[k].errorHandler THEN 1 ELSE 0
              /\ ~ws[k].isConnected
              /\ ws[k].conn = "closed"
        /\ loop[k] # "exited" => seen[k].errors = 0

C16_AfterEnd ==
    \A k \in Clients : loop[k] = "exited" =>
        /\ loop'[k] = "exited"
        /\ seen'[k] = seen[k]
        /\ ws'[k].conn = "closed"
        /\ ~ws'[k].isConnected

\* C16: when a read fails or the connection closes, the read loop calls the
\* error callback exactly once, marks the client not connected, closes the
\* connection and exits; afterwards no frame is dispatched, no callback is
\* called again and the connection is never opened again.
C16_ReadErrorEndsLoop == []C16_Ended /\ [][C16_AfterEnd]_vars

\* a read loop that has dispatched a frame has ended with one error reported
C16_Witness ==
    \E k \in Clients :
        /\ loop[k] = "exited"
        /\ seen[k].errors = 1
        /\ seen[k].frames # <<>>

(* ------------------------------- C17 ---------------------------------- *)
C17_OneLoop ==
    \A k \in Clients :
        /\ seen[k].loops <= 1
        /\ seen[k].loops = 0 <=> loop[k] = "none"
        /\ seen[k].loops = 0 <=> ws[k].conn = "nil"
        /\ ws[k].conn = "nil" => ~ws[k].isConnected

\* the step in which Connect runs on a new WebSocketClient
C17_ConnectStep ==
    wsClient' # wsClient =>
        /\ wsRet'.op = "ConnectWebSocket"
        /\ IF wsRet'.err = NoError
           THEN /\ ws'[wsClient'].isConnected
                /\ ws'[wsClient'].conn = "open"
                /\ loop'[wsClient'] = "reading"
                /\ seen'[wsClient'].loops = 1
           ELSE /\ wsRet'.err[1] = "websocket dial error"
                /\ ~ws'[wsClient'].isConnected
                /\ ws'[wsClient'].conn = "nil"
                /\ loop'[wsClient'] = "none"
                /\ seen'[wsClient'].loops = 0

\* C17: connect either succeeds, and then the client is connected and exactly
\* one read loop has been started for the connection, or fails, and then the
\* client is not connected, no read loop is started and a connect error is
\* returned.
C17_ConnectOutcome == []C17_OneLoop /\ [][C17_ConnectStep]_vars

\* a connect that failed after an earlier one had succeeded
C17_Witness ==
    /\ wsClient = 2
    /\ wsRet.op = "ConnectWebSocket"
    /\ wsRet.err # NoError
    /\ seen[1].loops = 1
    /\ seen[2].loops = 0

(* ------------------------------- C18 ---------------------------------- *)
\* C18: disconnect never fails, in whatever state it is called.
C18_DisconnectNeverFails ==
    wsRet.op = "DisconnectWebSocket" => wsRet.err = NoError

(* ------------------------------- C29 ---------------------------------- *)
\* C29: a submit that returns no error returns a non-empty transaction
\* handle; an answer of the gateway that parses but holds none of txHash,
\* hash and txId is not reported as success with an empty handle.
C29_HandleOrError ==
    \A i \in Calls :
        pc[i] = "done" /\ ret[i].err = NoError => ret[i].hash # <<>>

(* ------------------------------- C27 ---------------------------------- *)
OrderTypeURLs ==
    {MsgCreateOrderTypeURL, MsgCreateOrderBatchTypeURL, MsgCancelOrderTypeURL,
     MsgCancelOrderByClientIdTypeURL, MsgCancelAllOrderTypeURL, MsgCloseAllPositionTypeURL}

C27_Fetched(i) == \E k \in 1..Len(trace[i].stages) : trace[i].stages[k] = "fetch"

\* an order operation is in unordered mode and has neither fetched the
\* sequence nor set one; BindAgent is in ordered mode and has fetched the
\* sequence once when it has come to signing
C27_Modes ==
    \A i \in Calls :
        pc[i] # "idle" =>
            /\ args[i].typeURL \in OrderTypeURLs \cup {MsgBindAgentTypeURL}
            /\ args[i].typeURL \in OrderTypeURLs =>
                  /\ args[i].unordered
                  /\ ~C27_Fetched(i) /\ trace[i].fetches = 0
                  /\ txBuilder[i].sequence = 0
                  /\ Len(trace[i].stages) > 0 /\ pc[i] # "done" => txBuilder[i].unordered
            /\ args[i].typeURL = MsgBindAgentTypeURL =>
                  /\ ~args[i].unordered
                  /\ pc[i] \in {"sign", "encode", "send"} => C27_Fetched(i) /\ trace[i].fetches = 1

\* only a BindAgent that is posted moves the sequence the ledger expects,
\* and the ledger's decision on an order operation does not depend on it
C27_NoContention ==
    /\ serverSeq' # serverSeq =>
          \E i \in Calls : /\ args[i].typeURL = MsgBindAgentTypeURL
                           /\ pc[i] = "send" /\ pc'[i] = "done"
    /\ \A i \in Calls :
          /\ args[i].typeURL \in OrderTypeURLs
          /\ pc[i] = "send" /\ pc'[i] = "done" /\ trace'[i].resp.code = "0"
          => posts'[i][Len(posts'[i])].accepted

\* C27: CreateOrder, CreateOrderBatch, CancelOrder, CancelOrderByClientId,
\* CancelAllOrder and CloseAllPosition submit in unordered mode and never
\* fetch the sequence, so concurrent ones do not contend for a sequence
\* value; BindAgent is the only operation in ordered mode, and it fetches
\* the sequence.
C27_OrderOpsUnordered == []C27_Modes /\ [][C27_NoContention]_vars

\* two different order operations ran at the same time and both were
\* accepted, with no fetch of the sequence
C27_Witness ==
    \E i, j \in Calls :
        /\ args[i].typeURL = MsgCancelAllOrderTypeURL
        /\ args[j].typeURL = MsgCloseAllPositionTypeURL
        /\ pc[i] = "done" /\ pc[j] = "done"
        /\ ret[i].err = NoError /\ ret[j].err = NoError
        /\ Len(posts[i]) = 1 /\ posts[i][1].accepted
        /\ Len(posts[j]) = 1 /\ posts[j][1].accepted
        /\ posts[i][1].seqAtPost = posts[j][1].seqAtPost
        /\ trace[i].fetches = 0 /\ trace[j].fetches = 0

(* ------------------------------- C28 ---------------------------------- *)
\* construction without gateway host stores no account number
C28_Construction ==
    cstate = "new" /\ cstate' = "ready" /\ baseURL' = NoHost =>
        accountNumber' = 0 /\ acctLoads' = 0

\* a step of a client without base URL sends nothing to the gateway
C28_NoRequest ==
    cstate = "ready" /\ baseURL = NoHost =>
        /\ posts' = posts
        /\ serverSeq' = serverSeq
        /\ acctLoads' = acctLoads
        /\ \A i \in Calls : trace'[i].netFetches = trace[i].netFetches

\* GetAccountNumberAndSequence without base URL returns ("0", "0", nil)
C28_Account ==
    /\ baseURL = NoHost
    /\ lastQuery' # lastQuery /\ lastQuery'.op = "GetAccountNumberAndSequence"
    => /\ lastQuery'.err = NoError
       /\ lastQuery'.accountNumber = <<"0">>
       /\ lastQuery'.sequence = <<"0">>

\* the stages of a submit that would use the gateway: the fetch of an
\* ordered submit yields sequence 0, which is signed, and the send yields
\* the handle "mock_tx_hash" from an answer that echoes the raw transaction
C28_Submit ==
    baseURL = NoHost =>
        \A i \in Calls :
            /\ pc[i] = "fetch" /\ pc'[i] # "fetch" =>
                  pc'[i] = "sign" /\ txFactory'[i].sequence = 0
            /\ pc[i] = "sign" /\ pc'[i] = "encode" => txBuilder'[i].sequence = 0
            /\ pc[i] = "send" /\ pc'[i] # "send" =>
                  /\ pc'[i] = "done"
                  /\ ret'[i] = [hash |-> MockTxHash, err |-> NoError]
                  /\ trace'[i].resp.code = "0"
                  /\ trace'[i].resp.rawTx = <<Base64(TxEncoder(txBuilder[i]))>>

\* C28: without base URL the client sends nothing to the gateway:
\* construction skips the account fetch and leaves accountNumber 0,
\* GetAccountNumberAndSequence returns ("0", "0") without error, SendRawTx
\* returns a success answer with handle "mock_tx_hash" that echoes the raw
\* transaction, so a submit that reaches the gateway stages (an ordered one
\* signs with sequence 0) returns "mock_tx_hash" and no error.
C28_MockWithoutGateway ==
    [][C28_Construction /\ C28_NoRequest /\ C28_Account /\ C28_Submit]_vars

\* a client constructed without gateway host: an ordered submit has signed
\* sequence 0 and returned "mock_tx_hash", nothing was posted or fetched
\* from the gateway, and the caller's own fetch has returned ("0", "0")
C28_Witness ==
    \E i \in Calls :
        /\ cstate = "ready" /\ baseURL = NoHost /\ accountNumber = 0 /\ acctLoads = 0
        /\ pc[i] = "done" /\ ~args[i].unordered
        /\ ret[i] = [hash |-> MockTxHash, err |-> NoError]
        /\ txBuilder[i].signed /\ txBuilder[i].sequence = 0
        /\ trace[i].fetches = 1 /\ trace[i].netFetches = 0
        /\ posts[i] = <<>>
        /\ lastQuery.op = "GetAccountNumberAndSequence" /\ lastQuery.sequence = <<"0">>

(* ------------------------------- C25 ---------------------------------- *)
\* C25: no frame of channel C that is received after the subscribe to C has
\* sent its control frame is missed by the queue of that subscribe, also
\* when it is received before the filter is installed.
C25_NoFrameMissed ==
    [][\A k \in Clients : FrameRead(k) =>
          \A s \in Subs :
              (/\ sub[s].pc \in {"install", "done"}
               /\ sub[s].client = k
               /\ OnChannel(s, Head(inbound[k]))
               /\ Len(queue[s]) < QueueCapacity)
              => queue'[s] = Append(queue[s], Head(inbound[k]))]_vars

(* ------------------------------- C21 ---------------------------------- *)
\* what a call of Unsubscribe that returns in this step has done
C21_Step ==
    unsubs' # unsubs =>
        LET u == unsubs'[Len(unsubs')]
            k == u.client
            frame == WsSubscribeReq("unsubscribe", u.channel)
        IN  /\ ws' = ws /\ loop' = loop /\ wsClient' = wsClient
            /\ queue' = queue
            /\ \A s \in Subs :
                  InChain(s, ws[k].messageHandler) => InChain(s, ws'[k].messageHandler)
            /\ \A j \in Clients : j # k => wire'[j] = wire[j]
            /\ IF ~ws[k].isConnected
               THEN u.err = <<"websocket not connected">> /\ wire'[k] = wire[k]
               ELSE \/ u.err = NoError /\ wire'[k] = Append(wire[k], frame)
                    \/ u.err = <<"write error">> /\ wire'[k] = wire[k]

\* C21: Unsubscribe(C) on a connected client writes exactly one control
\* frame {method: "unsubscribe", subscription: {channel: C}} (none when the
\* write fails, which it returns as error) and leaves the handler, with the
\* filter of the subscribe to C in it, every queue and the connection state
\* as they are; on a client that is not connected it returns an error and
\* writes nothing.
C21_UnsubscribeOnlySendsFrame == [][C21_Step]_vars

\* Unsubscribe has returned nil for the channel of a subscription: the
\* frames written are the subscribe and the unsubscribe frame, and the
\* filter of the subscription is still in the handler
C21_Witness ==
    \E s \in Subs, k \in Clients :
        /\ Subscribed(s, k)
        /\ unsubs = <<[client |-> k, channel |-> sub[s].channel, err |-> NoError]>>
        /\ wire[k] = <<WsSubscribeReq("subscribe", sub[s].channel),
                       WsSubscribeReq("unsubscribe", sub[s].channel)>>
        /\ InChain(s, ws[k].messageHandler)
        /\ ws[k].isConnected

(* ------------------------------- C22 ---------------------------------- *)
\* the number the server has given the frame
C22_FrameNo(msg) == IF msg.json = "invalid" THEN msg.raw ELSE msg.data.a[1].klineTime.n

\* the frames of a queue are frames of its channel that the read loop has
\* dispatched, in the order they arrived, and all of them arrived after the
\* frame the consumer has received last
C22_ArrivalOrder ==
    \A s \in Subs :
        /\ \A j \in 1..Len(queue[s]) :
              /\ C22_FrameNo(recvd[s]) < C22_FrameNo(queue[s][j])
              /\ \A i \in 1..(j - 1) : C22_FrameNo(queue[s][i]) < C22_FrameNo(queue[s][j])
              /\ ws[sub[s].client].messageHandler.user =>
                    \E i \in 1..Len(seen[sub[s].client].frames) :
                        seen[sub[s].client].frames[i] = queue[s][j]
        /\ recvd[s] # NoFrame => OnChannel(s, recvd[s])

\* a step changes a queue only at its ends: the consumer takes the oldest
\* frame, or the read loop appends the frame it has read; a frame read
\* while the queue is full is the one that is lost
C22_QueueStep ==
    \A s \in Subs :
        IF recvd'[s] # recvd[s]
        THEN /\ queue[s] # <<>>
             /\ recvd'[s] = Head(queue[s])
             /\ queue'[s] = Tail(queue[s])
        ELSE \/ queue'[s] = queue[s]
             \/ \E k \in Clients :
                   /\ FrameRead(k)
                   /\ OnChannel(s, Head(inbound[k]))
                   /\ Len(queue[s]) < QueueCapacity
                   /\ queue'[s] = Append(queue[s], Head(inbound[k]))

\* C22: the frames a consumer reads from a queue are, in arrival order, a
\* subsequence of the matching frames received after the subscribe; a frame
\* that arrives at a full queue is the one discarded, and a queued frame is
\* never evicted or reordered.
C22_DropNewestKeepsOrder == []C22_ArrivalOrder /\ [][C22_QueueStep]_vars

\* the queue was full when one more frame arrived, which was dropped; the
\* consumer then received the oldest frame and the others are still queued
C22_Witness ==
    /\ sub[1].pc = "done" /\ sub[1].drops = 1
    /\ recvd[1] # NoFrame
    /\ Len(queue[1]) = QueueCapacity - 1
    /\ C22_FrameNo(queue[1][1]) = C22_FrameNo(recvd[1]) + 1

(* ------------------------------- C23 ---------------------------------- *)
\* Disconnect has closed the connection while the read loop is in its read
C23_Disconnected(k) == ws[k].conn = "closed" /\ loop[k] = "reading"

\* the calls of the error handler the end of the loop makes
C23_Reports(k) == IF ws[k].errorHandler THEN 1 ELSE 0

\* C23: after Disconnect on a connected client whose read loop is in a
\* read, the read returns an error and the loop ends, and the error handler
\* is called exactly once for it, as for a failed connection.
C23_DisconnectEndsLoop ==
    \A k \in Clients :
        /\ [](C23_Disconnected(k) =>
                <>(loop[k] = "exited" /\ seen[k].errors = C23_Reports(k)))
        /\ [](seen[k].errors <= C23_Reports(k))

\* DisconnectWebSocket has returned nil on a connected client with an error
\* handler, and its read loop has ended and called the handler once
C23_Witness ==
    \E k \in Clients :
        /\ wsClient = k
        /\ wsRet = [op |-> "DisconnectWebSocket", err |-> NoError]
        /\ ws[k].errorHandler
        /\ loop[k] = "exited"
        /\ seen[k].errors = 1

(* ------------------------------- C24 ---------------------------------- *)
\* a subscribe that has failed has no queue and no filter anywhere
C24_NoQueue ==
    \A s \in Subs :
        sub[s].pc = "failed" =>
            /\ queue[s] = <<>>
            /\ \A k \in Clients : ~InChain(s, ws[k].messageHandler)

\* the step in which a subscribe fails changes no WebSocketClient, no queue
\* and writes no frame; and a subscribe called without WebSocketClient, on
\* one that is not connected, after its read loop has ended or after
\* Disconnect fails
C24_FailStep ==
    \A s \in Subs :
        /\ sub[s].pc = "idle" /\ sub'[s].pc = "failed" =>
              ws' = ws /\ loop' = loop /\ queue' = queue /\ wire' = wire
        /\ (/\ sub[s].pc = "idle" /\ sub'[s].pc # "idle"
            /\ \/ wsClient = 0
               \/ ~ws[wsClient].isConnected
               \/ loop[wsClient] = "exited"
               \/ ws[wsClient].conn = "closed")
           => sub'[s].pc = "failed"

C30_Fresh ==
    wsClient' # wsClient =>
        /\ ws'[wsClient'].messageHandler.filters = <<>>
        /\ wsClient # 0 =>
              ~ws'[wsClient].isConnected /\ ws'[wsClient].conn # "open"

\* after a ConnectWebSocket that failed for the empty wsURL the previous
\* WebSocketClient is disconnected
C30_EmptyURL ==
    wsRet = [op |-> "ConnectWebSocket", err |-> <<"wsURL is not set">>] /\ wsClient # 0 =>
        ~ws[wsClient].isConnected /\ ws[wsClient].conn # "open"

\* the queue of a subscription on a WebSocketClient that is disconnected,
\* replaced or not, gets no frame any more
C30_Quiet ==
    \A s \in Subs :
        sub[s].pc = "done" /\ ~ws[sub[s].client].isConnected => queue'[s] = queue[s]

\* no frame arrives on a connection that is disconnected, the queue of a
\* subscription gets frames from the read loop of its own connection only,
\* and none once that loop has ended
C30_OwnLoopOnly ==
    /\ \A k \in Clients :
          ws[k].conn # "open" => Len(inbound'[k]) <= Len(inbound[k])
    /\ \A s \in Subs :
          sub[s].pc = "done" /\ queue'[s] # queue[s] =>
              /\ FrameRead(sub[s].client)
              /\ queue'[s] = Append(queue[s], Head(inbound[sub[s].client]))

\* C30 as stated: ConnectWebSocket disconnects the existing WebSocketClient
\* first, also when it then fails for the empty wsURL, and makes a new one
\* with the given handlers only, so that the queues of subscriptions on the
\* previous connection receive no further frames.
C30_ReplacesConnection == []C30_EmptyURL /\ [][C30_Fresh /\ C30_Quiet]_vars

\* C30 amended: ConnectWebSocket disconnects the existing WebSocketClient
\* first, also when it then fails for the empty wsURL, and makes a new one
\* with the given handlers only; no frame arrives on the previous connection
\* any more and no frame of the new connection reaches a queue of the
\* previous one, but frames of the previous connection that were received
\* and not yet dispatched may still be put on its queues until its read
\* loop has ended.
C30_ReplacesConnectionLate == []C30_EmptyURL /\ [][C30_Fresh /\ C30_OwnLoopOnly]_vars

\* a second ConnectWebSocket has succeeded after a subscription on the
\* first connection: the first WebSocketClient is disconnected and still
\* holds the filter, whose queue has a frame, the second has no filter
C30_Witness ==
    /\ wsClient = 2
    /\ Subscribed(1, 1)
    /\ ~ws[1].isConnected /\ ws[1].conn = "closed"
    /\ ws[1].messageHandler.filters = <<1>>
    /\ queue[1] # <<>>
    /\ ws[2].isConnected /\ ws[2].messageHandler.filters = <<>>

(* ------------------------------- C26 ---------------------------------- *)
\* the number of listenForMessages of WebSocketClient k that are reading
C26_Reading(k) ==
    Cardinality({j \in 1..Len(prev[k]) : prev[k][j].loop = "reading"})
        + (IF loop[k] = "reading" THEN 1 ELSE 0)

\* a step in which the listenForMessages of an earlier connection ends
C26_EarlierExits(k) ==
    \E j \in 1..Len(prev[k]) :
        prev[k][j].loop = "reading" /\ prev'[k][j].loop = "exited"

\* the end of an earlier listenForMessages leaves the connection the client
\* holds now, and isConnected, as they are
C26_ExitIsLocal ==
    \A k \in Clients :
        C26_EarlierExits(k) =>
            ws'[k].conn = ws[k].conn /\ ws'[k].isConnected = ws[k].isConnected

\* C26: when Connect is called again on a WebSocketClient, the end of the
\* read loop of the earlier connection neither closes the connection opened
\* since nor sets the client to not connected, and at most one read loop
\* of the client is reading at any time.
C26_LoopExitOwnConnection ==
    [](\A k \in Clients : C26_Reading(k) <= 1) /\ [][C26_ExitIsLocal]_vars
====
